---- MODULE Spec2Model ----
(***************************************************************************)
(* Model of cargo-cargofmt's array layout pass, reflow_arrays              *)
(* (src/formatting/overflow.rs), over the token stream of src/toml.        *)
(*                                                                         *)
(* A token is a record [kind, raw]; raw is the token's text as a sequence  *)
(* of characters.  Indices are the 0-based indices of the Rust code; the   *)
(* operators At/Kind/Raw translate them to TLA+'s 1-based sequences.       *)
(* Option<usize>::None is modelled as the index NoIndex (-1).              *)
(***************************************************************************)
EXTENDS Integers, Sequences, FiniteSets, TLC

VARIABLES
    tokens,             \* TomlTokens::tokens, the stream being rewritten
    next_i,             \* TokenIndices::i of the scan in reflow_arrays
    inline_table_depth, \* reflow_arrays: inline_table_depth
    nesting_depth,      \* reflow_arrays: nesting_depth
    array_width,        \* parameter of reflow_arrays
    element_threshold,  \* parameter of reflow_arrays
    tab_spaces,         \* parameter of reflow_arrays
    pc,                 \* "scan" inside the while loop, "done" after it
    run,                \* 1: first call of reflow_arrays, 2: the call on its output
    input,              \* the stream handed to the first call
    out1,               \* the stream the first call returned
    last,               \* what the last process_array call did (history)
    log,                \* all process_array calls of the current run (history)
    manifest_config,    \* fmt_manifest: config (NoConfig: none)
    derived             \* what Config::array_width returned (NoWidth: not called)

vars == <<tokens, next_i, inline_table_depth, nesting_depth, array_width,
          element_threshold, tab_spaces, pc, run, input, out1, last, log,
          manifest_config, derived>>

----------------------------------------------------------------------------
(* Characters and tokens *)

\* The characters of the model.  "W" stands for a double-width character
\* (CJK, emoji: 3 bytes, 2 columns), "M" for a combining mark (2 bytes,
\* 0 columns), "T" for a tab; every other character is 1 byte, 1 column.
CharWidth(c, tabs) ==
    IF c = "T" THEN tabs
    ELSE IF c = "W" THEN 2
    ELSE IF c = "M" THEN 0
    ELSE 1

\* str::len() of one character: its UTF-8 byte length
CharLen(c) ==
    IF c = "W" THEN 3
    ELSE IF c = "M" THEN 2
    ELSE 1

Tok(k, r) == [kind |-> k, raw |-> r]

Spaces(n) == [j \in 1..n |-> " "]

EMPTY == Tok("Whitespace", <<>>)
SPACE == Tok("Whitespace", <<" ">>)
NL == Tok("Newline", <<"\n">>)
VAL_SEP == Tok("ValueSep", <<",">>)

NoIndex == 0 - 1

At(t, i) == t[i + 1]
Kind(t, i) == t[i + 1].kind
Raw(t, i) == t[i + 1].raw

\* Vec::insert(i, tok)
InsertAt(t, i, tok) == SubSeq(t, 1, i) \o <<tok>> \o SubSeq(t, i + 1, Len(t))
\* Vec::remove(i)
RemoveAt(t, i) == SubSeq(t, 1, i) \o SubSeq(t, i + 2, Len(t))

RECURSIVE SumOver(_, _, _)
\* sum of F[i] for i in lo..hi (an iterator's .sum())
SumOver(F, lo, hi) == IF lo > hi THEN 0 ELSE F[lo] + SumOver(F, lo + 1, hi)

SetMax(S) == CHOOSE x \in S : \A y \in S : y <= x
SetMin(S) == CHOOSE x \in S : \A y \in S : x <= y

\* raw.len(): byte length of a token's text
raw_len(raw) == SumOver([j \in 1..Len(raw) |-> CharLen(raw[j])], 1, Len(raw))

\* TomlTokens::trim_empty_whitespace
trim_empty_whitespace(t) ==
    SelectSeq(t, LAMBDA x : ~(x.kind = "Whitespace" /\ x.raw = <<>>))

----------------------------------------------------------------------------
(* Read-only helpers of overflow.rs *)

token_width(raw, tabs) ==
    SumOver([j \in 1..Len(raw) |-> CharWidth(raw[j], tabs)], 1, Len(raw))

\* sum of token_width over tokens[lo..=hi]
RangeWidth(t, lo, hi, tabs) ==
    SumOver([j \in lo..hi |-> token_width(Raw(t, j), tabs)], lo, hi)

depth_delta(kind) ==
    IF kind \in {"ArrayOpen", "InlineTableOpen"} THEN 1
    ELSE IF kind \in {"ArrayClose", "InlineTableClose"} THEN 0 - 1
    ELSE 0

\* the value of a loop's local_depth after `local_depth += depth_delta(kind)`
\* for the tokens from..=i
LocalDepth(t, from, i) ==
    SumOver([j \in from..i |-> depth_delta(Kind(t, j))], from, i)

RECURSIVE find_array_close_from(_, _, _)
find_array_close_from(t, i, depth) ==
    IF i >= Len(t) THEN NoIndex
    ELSE IF Kind(t, i) = "ArrayOpen" THEN find_array_close_from(t, i + 1, depth + 1)
    ELSE IF Kind(t, i) = "ArrayClose"
         THEN IF depth - 1 = 0 THEN i ELSE find_array_close_from(t, i + 1, depth - 1)
    ELSE find_array_close_from(t, i + 1, depth)

\* find_array_close that takes the end of the stream for a missing close bracket
find_array_close_or_end(t, open_index) ==
    IF find_array_close_from(t, open_index, 0) = NoIndex
    THEN Len(t) - 1
    ELSE find_array_close_from(t, open_index, 0)

find_array_close(t, open_index) == find_array_close_from(t, open_index, 0)

find_line_start(t, from_index) ==
    LET S == {i \in 0..(from_index - 1) : Kind(t, i) = "Newline"}
    IN IF S = {} THEN 0 ELSE SetMax(S) + 1

is_array_vertical(t, open_index, close_index) ==
    \E i \in open_index..close_index : Kind(t, i) = "Newline"

is_standalone_comment(t, comment_index, open_index) ==
    IF comment_index <= open_index + 1 THEN FALSE
    ELSE LET i0 == comment_index - 1
         IN IF Kind(t, i0) = "Whitespace"
            THEN IF i0 > open_index + 1 THEN Kind(t, i0 - 1) = "Newline" ELSE FALSE
            ELSE Kind(t, i0) = "Newline"

is_properly_vertical(t, open_index, close_index) ==
    IF open_index + 1 >= close_index THEN TRUE
    ELSE IF Kind(t, open_index + 1) # "Newline" THEN FALSE
    ELSE \A i \in (open_index + 1)..(close_index - 1) :
            LET local_depth == LocalDepth(t, open_index + 1, i)
            IN  /\ (Kind(t, i) = "ValueSep" /\ local_depth = 0) =>
                     LET W == {k \in (i + 1)..(close_index - 1) :
                                  Kind(t, k) # "Whitespace"}
                         j == IF W = {} THEN close_index ELSE SetMin(W)
                     IN ~(j < close_index /\ Kind(t, j) # "Newline")
                /\ (Kind(t, i) = "Comment" /\ local_depth = 0) =>
                     ~is_standalone_comment(t, i, open_index)

is_trailing_comma(t, comma_index, close_index) ==
    \A k \in (comma_index + 1)..(close_index - 1) :
        Kind(t, k) \in {"Whitespace", "Newline", "Comment"}

is_same_line(t, from, to) ==
    ~(\E k \in from..(to - 1) : Kind(t, k) = "Newline")

has_value_after_index(t, start, close_index) ==
    \E i \in (start + 1)..(close_index - 1) :
        /\ Kind(t, i) \notin {"Whitespace", "Newline", "Comment", "ValueSep"}
        /\ LocalDepth(t, start + 1, i) = 0

is_followed_by_comment(t, comma_index, close_index) ==
    LET W == {k \in (comma_index + 1)..(close_index - 1) : Kind(t, k) # "Whitespace"}
    IN W # {} /\ Kind(t, SetMin(W)) = "Comment"

make_indent(depth, tabs) == Spaces(depth * tabs)

----------------------------------------------------------------------------
(* Comment classification *)

CommentState_new == [last_value_index |-> NoIndex,
                     has_trailing_comment |-> FALSE,
                     has_non_last_comment |-> FALSE]

record_value(st, index) ==
    [last_value_index |-> index,
     has_trailing_comment |-> FALSE,
     has_non_last_comment |-> st.has_non_last_comment \/ st.has_trailing_comment]

into_position(st) ==
    IF st.has_non_last_comment THEN "NonLastElement"
    ELSE IF st.has_trailing_comment THEN "LastElementOnly"
    ELSE "None"

RECURSIVE comment_position_loop(_, _, _, _, _)
\* the for loop of comment_position, with handle_comment inlined in the
\* Comment arm (its early exit is the "BeforeClose" result)
comment_position_loop(t, i, open_index, close_index, st) ==
    IF i >= close_index THEN into_position(st)
    ELSE LET kind == Kind(t, i)
             local_depth == LocalDepth(t, open_index + 1, i)
         IN IF kind = "Comment"
            THEN IF st.last_value_index = NoIndex
                 THEN comment_position_loop(t, i + 1, open_index, close_index,
                          [st EXCEPT !.has_non_last_comment = TRUE])
                 ELSE IF is_same_line(t, st.last_value_index, i)
                 THEN comment_position_loop(t, i + 1, open_index, close_index,
                          [st EXCEPT !.has_trailing_comment = TRUE])
                 ELSE IF has_value_after_index(t, i, close_index)
                 THEN comment_position_loop(t, i + 1, open_index, close_index,
                          [st EXCEPT !.has_non_last_comment = TRUE])
                 ELSE "BeforeClose"
            ELSE IF kind \in {"ArrayClose", "InlineTableClose"} /\ local_depth = 0
            THEN comment_position_loop(t, i + 1, open_index, close_index,
                     record_value(st, i))
            ELSE IF kind \in {"Whitespace", "Newline", "ValueSep"}
            THEN comment_position_loop(t, i + 1, open_index, close_index, st)
            ELSE IF local_depth = 0
            THEN comment_position_loop(t, i + 1, open_index, close_index,
                     record_value(st, i))
            ELSE comment_position_loop(t, i + 1, open_index, close_index, st)

comment_position(t, open_index, close_index) ==
    comment_position_loop(t, open_index + 1, open_index, close_index, CommentState_new)

----------------------------------------------------------------------------
(* Element widths *)

ElementWidthCollector_new ==
    [widths |-> <<>>, depth |-> 0, current_width |-> 0, in_nested_element |-> FALSE]

finish_nested_element(c) ==
    [c EXCEPT !.widths = Append(c.widths, c.current_width),
              !.current_width = 0,
              !.in_nested_element = FALSE]

enter_nested(c, tok) ==
    [c EXCEPT !.depth = c.depth + 1,
              !.in_nested_element = IF c.depth + 1 = 1 THEN TRUE ELSE c.in_nested_element,
              !.current_width = c.current_width + raw_len(tok.raw)]

exit_nested(c, tok) ==
    LET c1 == [c EXCEPT !.current_width = c.current_width + raw_len(tok.raw),
                        !.depth = c.depth - 1]
    IN IF c1.depth = 0 /\ c1.in_nested_element THEN finish_nested_element(c1) ELSE c1

handle_scalar(c, tok) ==
    IF c.depth = 0
    THEN [c EXCEPT !.widths = Append(c.widths, raw_len(tok.raw))]
    ELSE [c EXCEPT !.current_width = c.current_width + raw_len(tok.raw)]

handle_top_level_comma(c) ==
    IF c.in_nested_element THEN finish_nested_element(c) ELSE c

process_token(c, tok) ==
    IF tok.kind \in {"ArrayOpen", "InlineTableOpen"} THEN enter_nested(c, tok)
    ELSE IF tok.kind \in {"ArrayClose", "InlineTableClose"} THEN exit_nested(c, tok)
    ELSE IF tok.kind = "Scalar" THEN handle_scalar(c, tok)
    ELSE IF tok.kind = "ValueSep" /\ c.depth = 0 THEN handle_top_level_comma(c)
    ELSE IF tok.kind \in {"Whitespace", "Newline", "Comment"} THEN c
    ELSE IF c.depth > 0
    THEN [c EXCEPT !.current_width = c.current_width + raw_len(tok.raw)]
    ELSE c

RECURSIVE collect_loop(_, _, _, _)
collect_loop(t, i, close_index, c) ==
    IF i >= close_index THEN c
    ELSE collect_loop(t, i + 1, close_index, process_token(c, At(t, i)))

collect_element_widths(t, open_index, close_index) ==
    collect_loop(t, open_index + 1, close_index, ElementWidthCollector_new).widths

\* all_widths_equal that takes any widths for equal
all_widths_equal_always(widths) == TRUE

all_widths_equal(widths) ==
    IF Len(widths) = 0 THEN TRUE
    ELSE \A k \in 1..Len(widths) : widths[k] = widths[1]

has_uniform_element_widths(t, open_index, close_index) ==
    all_widths_equal(collect_element_widths(t, open_index, close_index))

----------------------------------------------------------------------------
(* Width of the collapsed array, and the two decisions *)

ARRAY_BRACKETS_WIDTH == 2
COMMA_SPACE_WIDTH == 2

\* Some((width, after_newline)) as a record; None as [none |-> TRUE]
collapsed_token_contribution(t, index, close_index, tabs, after_newline) ==
    LET tok == At(t, index)
    IN IF tok.kind = "Newline" THEN [none |-> FALSE, w |-> 0, nl |-> TRUE]
       ELSE IF tok.kind = "Whitespace" /\ after_newline
       THEN [none |-> TRUE, w |-> 0, nl |-> FALSE]
       ELSE IF tok.kind = "ValueSep" /\ is_trailing_comma(t, index, close_index)
       THEN [none |-> FALSE, w |-> 0, nl |-> FALSE]
       ELSE IF tok.kind = "ValueSep"
       THEN [none |-> FALSE, w |-> COMMA_SPACE_WIDTH, nl |-> FALSE]
       ELSE [none |-> FALSE, w |-> token_width(tok.raw, tabs), nl |-> FALSE]

RECURSIVE content_fold(_, _, _, _, _, _)
content_fold(t, i, close_index, tabs, width, after_nl) ==
    IF i >= close_index THEN width
    ELSE LET c == collapsed_token_contribution(t, i, close_index, tabs, after_nl)
         IN IF c.none
            THEN content_fold(t, i + 1, close_index, tabs, width, FALSE)
            ELSE content_fold(t, i + 1, close_index, tabs, width + c.w, c.nl)

calculate_content_width(t, open_index, close_index, tabs) ==
    ARRAY_BRACKETS_WIDTH + content_fold(t, open_index + 1, close_index, tabs, 0, FALSE)

calculate_prefix_width(t, open_index, tabs) ==
    RangeWidth(t, find_line_start(t, open_index), open_index - 1, tabs)

calculate_collapsed_width(t, open_index, close_index, tabs) ==
    calculate_prefix_width(t, open_index, tabs)
        + calculate_content_width(t, open_index, close_index, tabs)

\* should_collapse_array without the comment test
should_collapse_array_by_width(t, open_index, close_index, aw, tabs) ==
    calculate_collapsed_width(t, open_index, close_index, tabs) <= aw

should_collapse_array(t, open_index, close_index, aw, tabs) ==
    IF comment_position(t, open_index, close_index) \in {"NonLastElement", "BeforeClose"}
    THEN FALSE
    ELSE calculate_collapsed_width(t, open_index, close_index, tabs) <= aw

\* should_reflow_array with the line-width test alone
should_reflow_array_line_only(t, open_index, close_index, aw, threshold, tabs) ==
    RangeWidth(t, find_line_start(t, open_index), close_index, tabs) > aw

should_reflow_array(t, open_index, close_index, aw, threshold, tabs) ==
    LET line_start == find_line_start(t, open_index)
        line_width == RangeWidth(t, line_start, close_index, tabs)
        widths == collect_element_widths(t, open_index, close_index)
    IN IF line_width > aw THEN TRUE
       ELSE \E k \in 1..Len(widths) : widths[k] > threshold

determine_vertical_array_action(t, open, close, aw, tabs) ==
    LET comment_pos == comment_position(t, open, close)
    IN IF should_collapse_array(t, open, close, aw, tabs)
       THEN IF comment_pos = "LastElementOnly" THEN "CollapseWithComment" ELSE "Collapse"
       ELSE IF is_properly_vertical(t, open, close) THEN "None"
       ELSE IF comment_pos \in {"NonLastElement", "BeforeClose"}
               /\ has_uniform_element_widths(t, open, close)
       THEN "ReflowGrouped"
       ELSE "Normalize"

determine_horizontal_array_action(t, open, close, aw, threshold, tabs) ==
    IF should_reflow_array(t, open, close, aw, threshold, tabs) THEN "Expand" ELSE "None"

\* Option<ArrayAction> as the action's name, "None" for no action
determine_array_action(t, open, itd, aw, threshold, tabs) ==
    IF itd > 0 THEN "None"
    ELSE LET close == find_array_close(t, open)
         IN IF close = NoIndex THEN "None"
            ELSE IF is_array_vertical(t, open, close)
            THEN determine_vertical_array_action(t, open, close, aw, tabs)
            ELSE determine_horizontal_array_action(t, open, close, aw, threshold, tabs)

----------------------------------------------------------------------------
(* Collapse: the mutating helpers.  A helper that returns the updated close *)
(* index returns the record [tokens, close].                                *)

RECURSIVE KeepNotIn(_, _, _)
\* the stream without the tokens at the indices in R (Vec::remove of each,
\* highest index first)
KeepNotIn(t, i, R) ==
    IF i >= Len(t) THEN <<>>
    ELSE (IF i \in R THEN <<>> ELSE <<At(t, i)>>) \o KeepNotIn(t, i + 1, R)

remove_newlines_and_indents(t, open_index, close_index) ==
    LET N == {i \in (open_index + 1)..(close_index - 1) : Kind(t, i) = "Newline"}
        removals == N \cup {i + 1 : i \in {k \in N : k + 1 < close_index
                                                   /\ Kind(t, k + 1) = "Whitespace"}}
    IN [tokens |-> KeepNotIn(t, 0, removals),
        close |-> close_index - Cardinality(removals)]

is_whitespace_before_comma(t, index, close_index) ==
    /\ Kind(t, index) = "Whitespace"
    /\ index + 1 < close_index
    /\ Kind(t, index + 1) = "ValueSep"

RECURSIVE remove_pre_comma_whitespace_loop(_, _, _)
remove_pre_comma_whitespace_loop(t, i, close) ==
    IF i >= close THEN [tokens |-> t, close |-> close]
    ELSE IF is_whitespace_before_comma(t, i, close)
    THEN remove_pre_comma_whitespace_loop(RemoveAt(t, i), i, close - 1)
    ELSE remove_pre_comma_whitespace_loop(t, i + 1, close)

remove_pre_comma_whitespace(t, open_index, close) ==
    remove_pre_comma_whitespace_loop(t, open_index + 1, close)

RECURSIVE remove_pre_comma_whitespace_and_trailing_loop(_, _, _)
remove_pre_comma_whitespace_and_trailing_loop(t, i, close) ==
    IF i >= close THEN [tokens |-> t, close |-> close]
    ELSE IF is_whitespace_before_comma(t, i, close)
    THEN remove_pre_comma_whitespace_and_trailing_loop(RemoveAt(t, i), i, close - 1)
    ELSE IF Kind(t, i) = "ValueSep" /\ is_trailing_comma(t, i, close)
    THEN remove_pre_comma_whitespace_and_trailing_loop(RemoveAt(t, i), i, close - 1)
    ELSE remove_pre_comma_whitespace_and_trailing_loop(t, i + 1, close)

remove_pre_comma_whitespace_and_trailing(t, open_index, close) ==
    remove_pre_comma_whitespace_and_trailing_loop(t, open_index + 1, close)

make_single_space_token == Tok("Whitespace", <<" ">>)

\* returns [tokens, inserted]
ensure_single_space_after(t, index) ==
    LET next_index == index + 1
    IN IF next_index >= Len(t) THEN [tokens |-> t, inserted |-> FALSE]
       ELSE IF Kind(t, next_index) = "Whitespace"
       THEN [tokens |-> IF Raw(t, next_index) # <<" ">>
                        THEN [t EXCEPT ![next_index + 1] = make_single_space_token]
                        ELSE t,
             inserted |-> FALSE]
       ELSE [tokens |-> InsertAt(t, next_index, make_single_space_token),
             inserted |-> TRUE]

RECURSIVE normalize_comma_spacing_loop(_, _, _)
normalize_comma_spacing_loop(t, i, close) ==
    IF i >= close THEN t
    ELSE IF Kind(t, i) = "ValueSep" /\ i + 1 < close
    THEN LET r == ensure_single_space_after(t, i)
         IN IF r.inserted
            THEN normalize_comma_spacing_loop(r.tokens, i + 2, close + 1)
            ELSE normalize_comma_spacing_loop(r.tokens, i + 1, close)
    ELSE normalize_comma_spacing_loop(t, i + 1, close)

normalize_comma_spacing_skipped(t, open_index, close) == t
normalize_comma_spacing(t, open_index, close) ==
    normalize_comma_spacing_loop(t, open_index + 1, close)

collapse_array_to_horizontal(t, open_index, close_index) ==
    LET a == remove_newlines_and_indents(t, open_index, close_index)
        b == remove_pre_comma_whitespace_and_trailing(a.tokens, open_index, a.close)
    IN normalize_comma_spacing(b.tokens, open_index, b.close)

RECURSIVE apply_newline_insertions_from(_, _, _)
\* insertions.into_iter().rev(): the k-th insertion, then the ones before it
apply_newline_insertions_from(t, insertions, k) ==
    IF k = 0 THEN t
    ELSE LET index == insertions[k].index
             indent == insertions[k].indent
             t1 == IF indent # <<>>
                   THEN InsertAt(t, index, Tok("Whitespace", indent))
                   ELSE t
         IN apply_newline_insertions_from(InsertAt(t1, index, NL), insertions, k - 1)

apply_newline_insertions(t, insertions) ==
    apply_newline_insertions_from(t, insertions, Len(insertions))

Ins(index, indent) == [index |-> index, indent |-> indent]

collapse_with_trailing_comment(t, open_index, close_index, nd, tabs) ==
    LET a == remove_newlines_and_indents(t, open_index, close_index)
        b == remove_pre_comma_whitespace(a.tokens, open_index, a.close)
        c == normalize_comma_spacing(b.tokens, open_index, b.close)
        found == find_array_close(c, open_index)
        new_close == IF found = NoIndex THEN b.close ELSE found
        indent == make_indent(nd + 1, tabs)
        close_indent == make_indent(nd, tabs)
    IN apply_newline_insertions(c, <<Ins(open_index + 1, indent),
                                     Ins(new_close, close_indent)>>)

----------------------------------------------------------------------------
(* Expand *)

\* Option<usize>: the whitespace index, or NoIndex
clearable_whitespace_after(t, comma_index, close_index) ==
    LET ws_index == comma_index + 1
    IN IF ws_index >= close_index \/ Kind(t, ws_index) # "Whitespace" THEN NoIndex
       ELSE LET W == {k \in (ws_index + 1)..(close_index - 1) :
                         Kind(t, k) # "Whitespace"}
            IN IF W # {} /\ Kind(t, SetMin(W)) = "Comment" THEN NoIndex ELSE ws_index

find_clearable_post_comma_whitespace(t, open_index, close_index) ==
    {clearable_whitespace_after(t, i, close_index) :
        i \in {k \in (open_index + 1)..(close_index - 1) :
                  /\ Kind(t, k) = "ValueSep"
                  /\ LocalDepth(t, open_index + 1, k) = 0
                  /\ clearable_whitespace_after(t, k, close_index) # NoIndex}}

clear_post_comma_whitespace(t, open_index, close_index) ==
    LET indices_to_clear == find_clearable_post_comma_whitespace(t, open_index, close_index)
    IN [j \in 1..Len(t) |-> IF (j - 1) \in indices_to_clear THEN EMPTY ELSE t[j]]

classify_token_for_trailing_comma(kind, depth) ==
    IF kind \in {"Whitespace", "Newline", "Comment"} THEN "Skip"
    ELSE IF kind = "ValueSep" /\ depth = 0 THEN "CheckComma"
    ELSE IF kind \in {"ArrayClose", "InlineTableClose"} /\ depth = 0 THEN "FoundValue"
    ELSE IF depth = 0 THEN "FoundValue"
    ELSE "Skip"

RECURSIVE find_last_value_loop(_, _, _, _, _)
\* LastValueResult as [tag, idx]
find_last_value_loop(t, i, open_index, close_index, last_value_index) ==
    IF i >= close_index
    THEN IF last_value_index = NoIndex
         THEN [tag |-> "Empty", idx |-> NoIndex]
         ELSE [tag |-> "NeedsCommaAfter", idx |-> last_value_index]
    ELSE LET act == classify_token_for_trailing_comma(
                        Kind(t, i), LocalDepth(t, open_index + 1, i))
         IN IF act = "FoundValue"
            THEN find_last_value_loop(t, i + 1, open_index, close_index, i)
            ELSE IF act = "CheckComma" /\ is_trailing_comma(t, i, close_index)
            THEN [tag |-> "AlreadyHasTrailingComma", idx |-> NoIndex]
            ELSE find_last_value_loop(t, i + 1, open_index, close_index, last_value_index)

find_last_value_needing_comma(t, open_index, close_index) ==
    find_last_value_loop(t, open_index + 1, open_index, close_index, NoIndex)

\* ensure_trailing_comma without the insertion
ensure_trailing_comma_without_insert(t, open_index, close_index) ==
    [tokens |-> t, close |-> close_index]

ensure_trailing_comma(t, open_index, close_index) ==
    LET r == find_last_value_needing_comma(t, open_index, close_index)
    IN IF r.tag = "NeedsCommaAfter"
       THEN [tokens |-> InsertAt(t, r.idx + 1, VAL_SEP), close |-> close_index + 1]
       ELSE [tokens |-> t, close |-> close_index]

insertion_after_comma(t, comma_index, close_index) ==
    IF is_trailing_comma(t, comma_index, close_index) THEN NoIndex
    ELSE IF is_followed_by_comment(t, comma_index, close_index) THEN NoIndex
    ELSE comma_index + 1

insertion_after_comment(t, comment_index, close_index) ==
    IF has_value_after_index(t, comment_index, close_index)
    THEN comment_index + 1
    ELSE NoIndex

insertion_point_for_token(t, index, close_index, depth) ==
    IF depth # 0 THEN NoIndex
    ELSE IF Kind(t, index) = "ValueSep" THEN insertion_after_comma(t, index, close_index)
    ELSE IF Kind(t, index) = "Comment" THEN insertion_after_comment(t, index, close_index)
    ELSE NoIndex

RECURSIVE collect_vertical_loop(_, _, _, _, _, _)
collect_vertical_loop(t, i, open_index, close_index, indent, acc) ==
    IF i >= close_index THEN acc
    ELSE LET p == insertion_point_for_token(t, i, close_index,
                      LocalDepth(t, open_index + 1, i))
         IN collect_vertical_loop(t, i + 1, open_index, close_index, indent,
                IF p # NoIndex THEN Append(acc, Ins(p, indent)) ELSE acc)

collect_vertical_insertions(t, open_index, close_index, indent, close_indent) ==
    Append(collect_vertical_loop(t, open_index + 1, open_index, close_index, indent,
                                 <<Ins(open_index + 1, indent)>>),
           Ins(close_index, close_indent))

reflow_array_to_vertical(t, open_index, close_index, tabs, nd) ==
    LET indent == make_indent(nd + 1, tabs)
        close_indent == make_indent(nd, tabs)
        a == clear_post_comma_whitespace(t, open_index, close_index)
        b == ensure_trailing_comma(a, open_index, close_index)
        insertions == collect_vertical_insertions(b.tokens, open_index, b.close,
                                                  indent, close_indent)
    IN trim_empty_whitespace(apply_newline_insertions(b.tokens, insertions))

----------------------------------------------------------------------------
(* Grouped reflow *)

RECURSIVE skip_backwards(_, _, _, _)
\* should_skip is the set of kinds the predicate accepts
skip_backwards(t, idx, min_index, should_skip) ==
    IF idx > min_index /\ Kind(t, idx) \in should_skip
    THEN skip_backwards(t, idx - 1, min_index, should_skip)
    ELSE idx

find_trailing_comment_index(t, open_index, close_index) ==
    LET idx == skip_backwards(t, IF close_index = 0 THEN 0 ELSE close_index - 1,
                              open_index, {"Whitespace", "Newline"})
    IN IF idx > open_index /\ Kind(t, idx) = "Comment" THEN idx ELSE NoIndex

is_on_own_line(t, index, min_index) ==
    IF index <= min_index THEN FALSE
    ELSE LET check == skip_backwards(t, index - 1, min_index, {"Whitespace"})
         IN check > min_index /\ Kind(t, check) = "Newline"

has_standalone_trailing_comment(t, open_index, close_index) ==
    LET idx == find_trailing_comment_index(t, open_index, close_index)
    IN IF idx = NoIndex THEN FALSE ELSE is_on_own_line(t, idx, open_index)

remove_trailing_whitespace(t) ==
    [j \in 1..Len(t) |->
        IF j < Len(t) /\ t[j].kind = "Whitespace" /\ t[j + 1].kind = "Newline"
        THEN [t[j] EXCEPT !.raw = <<>>]
        ELSE t[j]]

RECURSIVE skip_whitespace(_, _, _)
skip_whitespace(t, idx, end) ==
    IF idx < end /\ Kind(t, idx) = "Whitespace" THEN skip_whitespace(t, idx + 1, end)
    ELSE idx

RECURSIVE peek_width_loop(_, _, _, _, _)
\* the `while i < close_index` loop of peek_after_comma: the accumulated width
peek_width_loop(t, i, element_start, close_index, tabs) ==
    IF i >= close_index THEN 0
    ELSE LET kind == Kind(t, i)
             local_depth == LocalDepth(t, element_start, i)
         IN IF kind \in {"ValueSep", "Comment"} /\ local_depth = 0 THEN 0
            ELSE IF kind = "ArrayClose" /\ local_depth = 0 THEN 0
            ELSE token_width(Raw(t, i), tabs)
                    + peek_width_loop(t, i + 1, element_start, close_index, tabs)

\* NextAfterComma as [tag, width, index]
peek_after_comma(t, comma_index, close_index, tabs) ==
    LET i == skip_whitespace(t, comma_index + 1, close_index)
    IN IF i >= close_index THEN [tag |-> "Nothing", width |-> 0, index |-> NoIndex]
       ELSE IF Kind(t, i) = "Comment" /\ ~has_value_after_index(t, i, close_index)
       THEN [tag |-> "TrailingComment", width |-> 0, index |-> NoIndex]
       ELSE LET width == peek_width_loop(t, i, i, close_index, tabs)
            IN IF width > 0
               THEN [tag |-> "Element", width |-> width, index |-> i]
               ELSE [tag |-> "Nothing", width |-> 0, index |-> NoIndex]

calculate_base_width(t, open_index, tabs) ==
    RangeWidth(t, find_line_start(t, open_index), open_index, tabs)

\* GroupingState: [insertions, current_line_width]; base_width and indent
\* are passed along (they never change)
GroupingState_new(base_width, indent) ==
    [insertions |-> <<>>, current_line_width |-> base_width + Len(indent)]

insert_newline(st, index, base_width, indent) ==
    [insertions |-> Append(st.insertions, Ins(index, indent)),
     current_line_width |-> base_width + Len(indent)]

update_width(st, projected) == [st EXCEPT !.current_line_width = projected]

handle_comment_insertion(t, comment_index, close_index, st, base_width, indent) ==
    IF has_value_after_index(t, comment_index, close_index)
       /\ comment_index + 1 < close_index
    THEN insert_newline(st, comment_index + 1, base_width, indent)
    ELSE st

\* config is the GroupingConfig record
handle_comma_insertion(t, comma_index, close_index, config, st, base_width) ==
    LET nxt == peek_after_comma(t, comma_index, close_index, config.tab_spaces)
    IN IF nxt.tag = "Element"
       THEN LET projected_width == st.current_line_width + 2 + nxt.width
            IN IF projected_width > config.array_width
               THEN insert_newline(st, nxt.index, base_width, config.indent)
               ELSE update_width(st, projected_width)
       ELSE IF nxt.tag = "TrailingComment" /\ config.has_standalone_trailing_comment
       THEN insert_newline(st, skip_whitespace(t, comma_index + 1, close_index),
                           base_width, config.indent)
       ELSE st

RECURSIVE collect_grouped_loop(_, _, _, _, _, _, _)
collect_grouped_loop(t, i, open_index, close_index, config, st, base_width) ==
    IF i >= close_index THEN st
    ELSE LET kind == Kind(t, i)
             local_depth == LocalDepth(t, open_index + 1, i)
             st1 == IF local_depth # 0 THEN st
                    ELSE IF kind = "Comment"
                    THEN handle_comment_insertion(t, i, close_index, st,
                                                  base_width, config.indent)
                    ELSE IF kind = "ValueSep"
                    THEN handle_comma_insertion(t, i, close_index, config, st, base_width)
                    ELSE st
         IN collect_grouped_loop(t, i + 1, open_index, close_index, config, st1, base_width)

collect_grouped_insertions(t, open_index, close_index, config) ==
    LET base_width == calculate_base_width(t, open_index, config.tab_spaces)
        st0 == insert_newline(GroupingState_new(base_width, config.indent),
                              open_index + 1, base_width, config.indent)
        st == collect_grouped_loop(t, open_index + 1, open_index, close_index,
                                   config, st0, base_width)
    IN Append(st.insertions, Ins(close_index, config.close_indent))

reflow_grouped(t, open_index, close_index, tabs, nd, aw) ==
    LET standalone == has_standalone_trailing_comment(t, open_index, close_index)
        a == remove_newlines_and_indents(t, open_index, close_index)
        b == remove_pre_comma_whitespace(a.tokens, open_index, a.close)
        c == normalize_comma_spacing(b.tokens, open_index, b.close)
        found == find_array_close(c, open_index)
        close == IF found = NoIndex THEN b.close ELSE found
        config == [indent |-> make_indent(nd + 1, tabs),
                   close_indent |-> make_indent(nd, tabs),
                   array_width |-> aw,
                   tab_spaces |-> tabs,
                   has_standalone_trailing_comment |-> standalone]
        insertions == collect_grouped_insertions(c, open_index, close, config)
    IN trim_empty_whitespace(
           remove_trailing_whitespace(apply_newline_insertions(c, insertions)))

----------------------------------------------------------------------------
(* apply_array_action and process_array *)

apply_array_action(t, open, action, tabs, nd, aw) ==
    LET close == find_array_close(t, open)
    IN IF action = "Collapse" THEN collapse_array_to_horizontal(t, open, close)
       ELSE IF action = "CollapseWithComment"
       THEN collapse_with_trailing_comment(t, open, close, nd, tabs)
       ELSE IF action = "Expand" THEN reflow_array_to_vertical(t, open, close, tabs, nd)
       ELSE IF action = "Normalize"
       THEN LET c == collapse_array_to_horizontal(t, open, close)
                found == find_array_close(c, open)
                new_close == IF found = NoIndex THEN open ELSE found
            IN reflow_array_to_vertical(c, open, new_close, tabs, nd)
       ELSE IF action = "ReflowGrouped" THEN reflow_grouped(t, open, close, tabs, nd, aw)
       ELSE t

process_array(t, open_index, itd, nd, aw, threshold, tabs) ==
    apply_array_action(t, open_index,
        determine_array_action(t, open_index, itd, aw, threshold, tabs),
        tabs, nd, aw)

----------------------------------------------------------------------------
(* Input streams: what TomlTokens::parse returns for small valid documents  *)
(* `key = <array>\n`.  The lexer never yields two adjacent Whitespace       *)
(* tokens nor an empty one, and a Comment is always followed by a Newline.  *)

MaxElems == 2
MaxKeyLen == 1

WS(n) == Tok("Whitespace", Spaces(n))
Scalar(r) == Tok("Scalar", r)
Comment == Tok("Comment", <<"#", "c">>)
AOpen == Tok("ArrayOpen", <<"[">>)
AClose == Tok("ArrayClose", <<"]">>)
TOpen == Tok("InlineTableOpen", <<"{">>)
TClose == Tok("InlineTableClose", <<"}">>)
KeyTok(n) == Tok("SimpleKey", [j \in 1..n |-> "k"])
KeyValSep == Tok("KeyValSep", <<"=">>)

S1 == <<Scalar(<<"1">>)>>
S22 == <<Scalar(<<"2", "2">>)>>
SW == <<Scalar(<<"\"", "W", "\"">>)>>
S333 == <<Scalar(<<"3", "3", "3">>)>>

\* trivia after the open bracket
AfterOpen == {<<>>, <<WS(1)>>, <<NL, WS(4)>>}
\* trivia between an element and its comma
BeforeComma == {<<>>, <<WS(1)>>}
\* trivia between a comma and the next element
AfterComma == {<<WS(1)>>, <<NL, WS(4)>>, <<WS(1), Comment, NL, WS(4)>>,
               <<NL, WS(4), Comment, NL, WS(4)>>}
\* what follows the last element, up to and including the close bracket
Ending == {<<AClose>>, <<VAL_SEP, AClose>>, <<WS(1), AClose>>,
           <<NL, AClose>>, <<VAL_SEP, NL, AClose>>,
           <<WS(1), Comment, NL, AClose>>,
           <<VAL_SEP, WS(1), Comment, NL, AClose>>,
           <<VAL_SEP, NL, WS(4), Comment, NL, AClose>>}

\* arrays of scalars in every layout
ScalarLists ==
    {<<>>} \cup {<<S1>>, <<S22>>, <<SW>>}
           \cup (IF MaxElems >= 2
                 THEN {<<S1, S1>>, <<S1, S22>>, <<SW, S22>>, <<S22, S1>>}
                 ELSE {})
           \cup (IF MaxElems >= 3 THEN {<<S1, S1, S1>>, <<S1, S22, S1>>} ELSE {})

RECURSIVE JoinElems(_, _, _)
\* the elements es[k..], each followed by bc, a comma and ac, but the last
JoinElems(es, k, sep) ==
    IF k > Len(es) THEN <<>>
    ELSE IF k = Len(es) THEN es[k]
    ELSE es[k] \o sep \o JoinElems(es, k + 1, sep)

ScalarArrays ==
    {<<AOpen, AClose>>, <<AOpen, WS(1), AClose>>, <<AOpen, NL, AClose>>}
    \cup {<<AOpen>> \o ao \o JoinElems(es, 1, bc \o <<VAL_SEP>> \o ac) \o en :
            ao \in AfterOpen, bc \in BeforeComma, ac \in AfterComma, en \in Ending,
            es \in ScalarLists \ {<<>>}}

\* nested arrays and inline tables as they appear as elements
InnerHorizontal == {<<AOpen>> \o S1 \o <<AClose>>,
                    <<AOpen>> \o S1 \o <<VAL_SEP, WS(1)>> \o S22 \o <<AClose>>,
                    <<AOpen>> \o S1 \o <<VAL_SEP>> \o S22 \o <<AClose>>}
InnerVertical == {<<AOpen, NL, WS(8)>> \o S1 \o <<VAL_SEP, NL, WS(4), AClose>>,
                  <<AOpen>> \o S1 \o <<VAL_SEP, WS(1), Comment, NL, WS(8)>> \o S22
                      \o <<AClose>>}
InnerTables == {<<TOpen, KeyTok(1), WS(1), KeyValSep, WS(1), AOpen>> \o S1
                    \o <<VAL_SEP>> \o S22 \o <<AClose, TClose>>,
                <<TOpen, KeyTok(1), WS(1), KeyValSep, WS(1), AOpen>> \o S1
                    \o <<WS(1), VAL_SEP, WS(1)>> \o S22
                    \o <<AClose, VAL_SEP, WS(1), KeyTok(1), WS(1), KeyValSep, WS(1)>>
                    \o S1 \o <<TClose>>,
                <<TOpen, WS(1), KeyTok(1), WS(1), KeyValSep, WS(1), AOpen>> \o S1
                    \o <<VAL_SEP, NL>> \o S22 \o <<AClose, WS(1), TClose>>}
Inner == InnerHorizontal \cup InnerVertical \cup InnerTables

NestedLists ==
    {<<e>> : e \in Inner}
    \cup (IF MaxElems >= 2
          THEN {<<e, f>> : e \in Inner, f \in {S1, S333, <<AOpen>> \o S1 \o <<AClose>>}}
               \cup {<<S1, e>> : e \in Inner}
          ELSE {})

NestedArrays ==
    {<<AOpen>> \o l.ao \o JoinElems(es, 1, <<VAL_SEP>> \o l.ac) \o l.en :
        es \in NestedLists,
        l \in {[ao |-> <<>>, ac |-> <<WS(1)>>, en |-> <<AClose>>],
               [ao |-> <<>>, ac |-> <<NL, WS(4)>>, en |-> <<AClose>>],
               [ao |-> <<NL, WS(4)>>, ac |-> <<NL, WS(4)>>, en |-> <<VAL_SEP, NL, AClose>>],
               [ao |-> <<NL, WS(4)>>, ac |-> <<WS(1), Comment, NL, WS(4)>>,
                en |-> <<NL, AClose>>]}}

Document(n, arr) == <<KeyTok(n), WS(1), KeyValSep, WS(1)>> \o arr \o <<NL>>

EmptyArrayLine(c) ==
    <<Tok("SimpleKey", <<c>>), WS(1), KeyValSep, WS(1), AOpen, AClose, NL>>

\* what precedes the key: nothing, three lines that hold only a space, or
\* three empty arrays
Preambles == {<<>>,
              <<WS(1), NL, WS(1), NL, WS(1), NL>>,
              EmptyArrayLine("a") \o EmptyArrayLine("b") \o EmptyArrayLine("c")}

Inputs == {pre \o Document(n, arr) :
              pre \in Preambles, n \in 1..MaxKeyLen, arr \in ScalarArrays \cup NestedArrays}

ArrayWidths == {0, 3, 10, 40}
Thresholds == {4, 10}
TabSpaces == {2, 4}

----------------------------------------------------------------------------
(* reflow_arrays as a state machine: one step per iteration of its loop *)

\* reflow_arrays called on its own, as its unit tests do: no Config exists
NoConfig == [set |-> FALSE]
NoWidth == <<-1>>

NoCall == [action |-> "Init", open |-> NoIndex, nd |-> 0, itd |-> 0, before |-> <<>>]

Init ==
    /\ tokens \in Inputs
    /\ array_width \in ArrayWidths
    /\ element_threshold \in Thresholds
    /\ tab_spaces \in TabSpaces
    /\ next_i = 0
    /\ inline_table_depth = 0
    /\ nesting_depth = 0
    /\ pc = "scan"
    /\ run = 1
    /\ input = tokens
    /\ out1 = <<>>
    /\ last = NoCall
    /\ log = <<>>
    /\ manifest_config = NoConfig
    /\ derived = NoWidth

Scanning(kinds) ==
    /\ pc = "scan"
    /\ next_i < Len(tokens)
    /\ Kind(tokens, next_i) \in kinds

SaturatingDec(n) == IF n = 0 THEN 0 ELSE n - 1

Params == <<array_width, element_threshold, tab_spaces, manifest_config, derived>>

ScanInlineTableOpen ==
    /\ Scanning({"InlineTableOpen"})
    /\ inline_table_depth' = inline_table_depth + 1
    /\ nesting_depth' = nesting_depth + 1
    /\ next_i' = next_i + 1
    /\ UNCHANGED <<tokens, Params, pc, run, input, out1, last, log>>

ScanInlineTableClose ==
    /\ Scanning({"InlineTableClose"})
    /\ inline_table_depth' = SaturatingDec(inline_table_depth)
    /\ nesting_depth' = SaturatingDec(nesting_depth)
    /\ next_i' = next_i + 1
    /\ UNCHANGED <<tokens, Params, pc, run, input, out1, last, log>>

ScanArrayOpen ==
    /\ Scanning({"ArrayOpen"})
    /\ tokens' = process_array(tokens, next_i, inline_table_depth, nesting_depth,
                               array_width, element_threshold, tab_spaces)
    /\ last' = [action |-> determine_array_action(tokens, next_i, inline_table_depth,
                               array_width, element_threshold, tab_spaces),
                open |-> next_i,
                nd |-> nesting_depth,
                itd |-> inline_table_depth,
                before |-> tokens]
    /\ log' = Append(log, [action |-> last'.action, open |-> next_i])
    /\ nesting_depth' = nesting_depth + 1
    /\ next_i' = next_i + 1
    /\ UNCHANGED <<inline_table_depth, Params, pc, run, input, out1>>

ScanArrayClose ==
    /\ Scanning({"ArrayClose"})
    /\ nesting_depth' = SaturatingDec(nesting_depth)
    /\ next_i' = next_i + 1
    /\ UNCHANGED <<tokens, inline_table_depth, Params, pc, run, input, out1, last, log>>

ScanOther ==
    /\ Scanning({"SimpleKey", "KeyValSep", "KeySep", "StdTableOpen", "StdTableClose",
                 "Whitespace", "Newline", "Comment", "Scalar", "ValueSep"})
    /\ next_i' = next_i + 1
    /\ UNCHANGED <<tokens, inline_table_depth, nesting_depth, Params, pc, run,
                   input, out1, last, log>>

\* next_index returns None: the loop ends and reflow_arrays returns
ScanEnd ==
    /\ pc = "scan"
    /\ next_i >= Len(tokens)
    /\ pc' = "done"
    /\ UNCHANGED <<tokens, next_i, inline_table_depth, nesting_depth, Params, run,
                   input, out1, last, log>>

\* reflow_arrays is called again, with the same parameters, on its own output
Rerun ==
    /\ pc = "done"
    /\ run = 1
    /\ run' = 2
    /\ out1' = tokens
    /\ pc' = "scan"
    /\ next_i' = 0
    /\ inline_table_depth' = 0
    /\ nesting_depth' = 0
    /\ last' = NoCall
    /\ log' = <<>>
    /\ UNCHANGED <<tokens, Params, input>>

Next ==
    \/ ScanInlineTableOpen
    \/ ScanInlineTableClose
    \/ ScanArrayOpen
    \/ ScanArrayClose
    \/ ScanOther
    \/ ScanEnd
    \/ Rerun

Spec == Init /\ [][Next]_vars

\* usize::MAX as array_width: the largest integer of the checker stands for
\* it, since array_width is only ever compared with a width
USIZE_MAX == 2147483647

\* reflow_arrays called with array_width = usize::MAX
InitMax ==
    /\ tokens \in Inputs
    /\ array_width = USIZE_MAX
    /\ element_threshold \in Thresholds
    /\ tab_spaces \in TabSpaces
    /\ next_i = 0
    /\ inline_table_depth = 0
    /\ nesting_depth = 0
    /\ pc = "scan"
    /\ run = 1
    /\ input = tokens
    /\ out1 = <<>>
    /\ last = NoCall
    /\ log = <<>>
    /\ manifest_config = NoConfig
    /\ derived = NoWidth

SpecMax == InitMax /\ [][Next]_vars

\* the stream without its last ArrayClose token
DropLastClose(t) ==
    LET last_close == SetMax({i \in 0..(Len(t) - 1) : Kind(t, i) = "ArrayClose"})
    IN RemoveAt(t, last_close)

\* a line `k = [1` whose bracket is never closed
DanglingLine == <<KeyTok(1), WS(1), KeyValSep, WS(1), AOpen>> \o S1 \o <<NL>>

\* malformed documents: the outermost array has lost its close bracket, or a
\* well-formed document is followed by a line with a dangling open bracket
UnmatchedInputs ==
    {DropLastClose(Document(1, arr)) : arr \in ScalarArrays \cup NestedArrays}
    \cup {Document(1, arr) \o DanglingLine : arr \in NestedArrays}

\* reflow_arrays called on a stream with an unmatched open bracket
InitUnmatched ==
    /\ tokens \in UnmatchedInputs
    /\ array_width \in ArrayWidths
    /\ element_threshold \in Thresholds
    /\ tab_spaces \in TabSpaces
    /\ next_i = 0
    /\ inline_table_depth = 0
    /\ nesting_depth = 0
    /\ pc = "scan"
    /\ run = 1
    /\ input = tokens
    /\ out1 = <<>>
    /\ last = NoCall
    /\ log = <<>>
    /\ manifest_config = NoConfig
    /\ derived = NoWidth

SpecUnmatched == InitUnmatched /\ [][Next]_vars

\* what follows the last element when a comment stands on its own line
\* before the close bracket: with and without a comma after the element,
\* and behind a comment that trails the element
StandaloneEndings ==
    {<<VAL_SEP, NL, WS(4), Comment, NL, AClose>>,
     <<NL, WS(4), Comment, NL, AClose>>,
     <<VAL_SEP, WS(1), Comment, NL, WS(4), Comment, NL, AClose>>}

\* documents whose array ends with a comment on its own line
StandaloneInputs ==
    {Document(1, <<AOpen>> \o ao \o JoinElems(es, 1, <<VAL_SEP>> \o ac) \o en) :
        ao \in AfterOpen, ac \in AfterComma, en \in StandaloneEndings,
        es \in (ScalarLists \ {<<>>}) \cup {<<e>> : e \in Inner}}

\* reflow_arrays called on a document whose array ends with a standalone comment
InitStandalone ==
    /\ tokens \in StandaloneInputs
    /\ array_width \in ArrayWidths
    /\ element_threshold \in Thresholds
    /\ tab_spaces \in TabSpaces
    /\ next_i = 0
    /\ inline_table_depth = 0
    /\ nesting_depth = 0
    /\ pc = "scan"
    /\ run = 1
    /\ input = tokens
    /\ out1 = <<>>
    /\ last = NoCall
    /\ log = <<>>
    /\ manifest_config = NoConfig
    /\ derived = NoWidth

SpecStandalone == InitStandalone /\ [][Next]_vars

----------------------------------------------------------------------------
(* Config::array_width (src/config/mod.rs).                                *)
(*                                                                         *)
(* A usize is a sequence of bits, least significant first, without leading *)
(* zeros, so that all 64 bits exist and equal numbers are equal sequences. *)
(* An f64 is [m, e], the value m * 2^e with m of at most 53 bits; the      *)
(* operations round to nearest, ties to even, as IEEE 754 does.            *)

USIZE_BITS == 64
F64_MANTISSA_BITS == 53

RECURSIVE FromNat(_)
FromNat(n) == IF n = 0 THEN <<>> ELSE <<n % 2>> \o FromNat(n \div 2)

RECURSIVE ToNat(_)
ToNat(b) == IF b = <<>> THEN 0 ELSE Head(b) + 2 * ToNat(Tail(b))

Ones(k) == [i \in 1..k |-> 1]

\* arithmetic goes through limbs of LIMB_BITS bits, so that no product of
\* two limbs, and no sum of such products, leaves the 32-bit integers
LIMB_BITS == 12
LIMB == 2 ^ LIMB_BITS

BitAt(b, i) == IF i <= Len(b) THEN b[i] ELSE 0

RECURSIVE LimbValue(_, _, _)
LimbValue(b, j, k) ==
    IF k = LIMB_BITS THEN 0
    ELSE BitAt(b, LIMB_BITS * (j - 1) + k + 1) + 2 * LimbValue(b, j, k + 1)

ToLimbs(b) ==
    [j \in 1..((Len(b) + LIMB_BITS - 1) \div LIMB_BITS) |-> LimbValue(b, j, 0)]

ToBits(l) ==
    LET raw == [i \in 1..(LIMB_BITS * Len(l)) |->
                  (l[(i - 1) \div LIMB_BITS + 1] \div (2 ^ ((i - 1) % LIMB_BITS))) % 2]
        set == {i \in 1..Len(raw) : raw[i] = 1}
    IN IF set = {} THEN <<>>
       ELSE SubSeq(raw, 1, CHOOSE i \in set : \A j \in set : j <= i)

LimbAt(l, j) == IF j >= 1 /\ j <= Len(l) THEN l[j] ELSE 0

\* carry propagation over the column sums
RECURSIVE Propagate(_, _, _)
Propagate(cols, k, carry) ==
    IF k > Len(cols) THEN (IF carry = 0 THEN <<>> ELSE <<carry>>)
    ELSE LET s == cols[k] + carry
         IN <<s % LIMB>> \o Propagate(cols, k + 1, s \div LIMB)

RECURSIVE Column(_, _, _, _)
Column(a, b, k, i) ==
    IF i > Len(a) THEN 0
    ELSE a[i] * LimbAt(b, k + 1 - i) + Column(a, b, k, i + 1)

Add(x, y) ==
    LET a == ToLimbs(x)
        b == ToLimbs(y)
        n == IF Len(a) > Len(b) THEN Len(a) ELSE Len(b)
    IN ToBits(Propagate([k \in 1..n |-> LimbAt(a, k) + LimbAt(b, k)], 1, 0))

Mul(x, y) ==
    LET a == ToLimbs(x)
        b == ToLimbs(y)
    IN ToBits(Propagate([k \in 1..(Len(a) + Len(b)) |-> Column(a, b, k, 1)], 1, 0))

\* quotient and remainder of the limbs l by the small number d
RECURSIVE DivRemLimbs(_, _)
DivRemLimbs(l, d) ==
    IF l = <<>> THEN [q |-> <<>>, r |-> 0]
    ELSE LET hi == DivRemLimbs(Tail(l), d)
             r2 == LIMB * hi.r + Head(l)
         IN [q |-> <<r2 \div d>> \o hi.q, r |-> r2 % d]

DivRem(x, d) ==
    LET qr == DivRemLimbs(ToLimbs(x), d)
    IN [q |-> ToBits(qr.q), r |-> qr.r]

\* the nearest f64 of m * 2^e, ties to even
f64_round(m, e) ==
    IF Len(m) <= F64_MANTISSA_BITS THEN [m |-> m, e |-> e]
    ELSE LET s == Len(m) - F64_MANTISSA_BITS
             q == SubSeq(m, s + 1, Len(m))
             up == /\ m[s] = 1
                   /\ \/ \E i \in 1..(s - 1) : m[i] = 1
                      \/ q[1] = 1
         IN [m |-> IF up THEN Add(q, <<1>>) ELSE q, e |-> e + s]

\* `max_width as f64`
usize_as_f64(n) == f64_round(n, 0)

\* `x * y` on f64
f64_mul(x, y) == f64_round(Mul(x.m, y.m), x.e + y.e)

\* `x as usize`: truncates, and saturates at usize::MAX
f64_as_usize(x) ==
    LET v == IF x.m = <<>> THEN <<>>
             ELSE IF x.e >= 0 THEN [i \in 1..x.e |-> 0] \o x.m
             ELSE IF -x.e >= Len(x.m) THEN <<>>
             ELSE SubSeq(x.m, 1 - x.e, Len(x.m))
    IN IF Len(v) > USIZE_BITS THEN Ones(USIZE_BITS) ELSE v

\* the f64 literal 0.6: 0x13333333333333 * 2^-53
PERCENT_0_6 ==
    [m |-> [i \in 1..F64_MANTISSA_BITS |->
               IF i = F64_MANTISSA_BITS \/ (i - 1) % 4 \in {0, 1} THEN 1 ELSE 0],
     e |-> -F64_MANTISSA_BITS]

None == [some |-> FALSE]
Some(v) == [some |-> TRUE, v |-> v]

heuristic_width(c, percent) ==
    CASE c.use_small_heuristics = "Default" ->
             f64_as_usize(f64_mul(usize_as_f64(c.max_width), percent))
      [] c.use_small_heuristics = "Off" -> <<>>
      [] c.use_small_heuristics = "Max" -> c.max_width

Config_array_width(c) ==
    IF c.array_width.some THEN c.array_width.v ELSE heuristic_width(c, PERCENT_0_6)

MaxSmallWidth == 40

\* max_width: the small widths, the defaults of the tests, and widths of
\* 53 bits and more, which an f64 cannot hold exactly
BigWidths ==
    {Ones(F64_MANTISSA_BITS), Ones(F64_MANTISSA_BITS) \o <<1>>,
     Ones(USIZE_BITS - 1), Ones(USIZE_BITS)}

MaxWidths == {FromNat(n) : n \in (0..MaxSmallWidth) \cup {80, 100}} \cup BigWidths

Heuristics == {"Default", "Off", "Max"}

ExplicitWidths == {None, Some(FromNat(0)), Some(FromNat(70))}

Configs ==
    {[set |-> TRUE, max_width |-> w, array_width |-> a, use_small_heuristics |-> h]
        : w \in MaxWidths, a \in ExplicitWidths, h \in Heuristics}

InitConfig ==
    /\ manifest_config \in Configs
    /\ derived = NoWidth
    /\ tokens = <<>>
    /\ array_width = 0
    /\ element_threshold = 0
    /\ tab_spaces = 4
    /\ next_i = 0
    /\ inline_table_depth = 0
    /\ nesting_depth = 0
    /\ pc = "config"
    /\ run = 1
    /\ input = <<>>
    /\ out1 = <<>>
    /\ last = NoCall
    /\ log = <<>>

CallArrayWidth ==
    /\ pc = "config"
    /\ derived = NoWidth
    /\ derived' = Config_array_width(manifest_config)
    /\ UNCHANGED <<tokens, next_i, inline_table_depth, nesting_depth, array_width,
                   element_threshold, tab_spaces, pc, run, input, out1, last, log,
                   manifest_config>>

NextConfig == CallArrayWidth

SpecConfig == InitConfig /\ [][NextConfig]_vars

----------------------------------------------------------------------------
(* adjust_trailing_comma (src/formatting/trailing_comma.rs) as a state     *)
(* machine: one step per iteration of its loop; next_i is the index the    *)
(* iteration looks at, the tactic is manifest_config.trailing_comma.       *)

SeparatorTactic == {"Always", "Never", "Vertical"}

\* indices.rev().skip(1).find(..): the nearest token before i that is a
\* comma, a scalar or a closing bracket
find_prev_value_or_sep(t, i) ==
    LET S == {j \in 0..(i - 1) :
                 Kind(t, j) \in {"ValueSep", "Scalar", "ArrayClose", "InlineTableClose"}}
    IN IF S = {} THEN NoIndex ELSE SetMax(S)

\* tokens[prev_i..i] holds a newline
newline_before_close(t, prev_i, i) ==
    \E j \in prev_i..(i - 1) : Kind(t, j) = "Newline"

trailing_comma_action(t, tactic, prev_i, i) ==
    LET is_sep == Kind(t, prev_i) = "ValueSep"
    IN CASE tactic = "Always" -> IF is_sep THEN "None" ELSE "Add"
         [] tactic = "Never" -> IF is_sep THEN "Remove" ELSE "None"
         [] tactic = "Vertical" ->
                IF is_sep
                THEN IF newline_before_close(t, prev_i, i) THEN "None" ELSE "Remove"
                ELSE IF newline_before_close(t, prev_i, i) THEN "Add" ELSE "None"

\* what the iteration at an ArrayClose decides: the action and prev_i
comma_decision(t, tactic, i) ==
    LET prev_i == find_prev_value_or_sep(t, i)
    IN IF prev_i = NoIndex THEN [action |-> "None", prev_i |-> NoIndex]
       ELSE [action |-> trailing_comma_action(t, tactic, prev_i, i), prev_i |-> prev_i]

CommaAt(kinds) ==
    /\ pc = "comma"
    /\ next_i < Len(tokens)
    /\ Kind(tokens, next_i) \in kinds

CommaFixed == <<inline_table_depth, nesting_depth, Params, run, input, out1, last, log>>

CommaOther ==
    /\ pc = "comma"
    /\ next_i < Len(tokens)
    /\ Kind(tokens, next_i) # "ArrayClose"
    /\ next_i' = next_i + 1
    /\ UNCHANGED <<tokens, pc, CommaFixed>>

CommaKeep ==
    /\ CommaAt({"ArrayClose"})
    /\ comma_decision(tokens, manifest_config.trailing_comma, next_i).action = "None"
    /\ next_i' = next_i + 1
    /\ UNCHANGED <<tokens, pc, CommaFixed>>

CommaAdd ==
    /\ CommaAt({"ArrayClose"})
    /\ LET d == comma_decision(tokens, manifest_config.trailing_comma, next_i)
       IN /\ d.action = "Add"
          /\ tokens' = InsertAt(tokens, d.prev_i + 1, VAL_SEP)
          /\ next_i' = next_i + 2
    /\ UNCHANGED <<pc, CommaFixed>>

CommaRemove ==
    /\ CommaAt({"ArrayClose"})
    /\ LET d == comma_decision(tokens, manifest_config.trailing_comma, next_i)
           removed == RemoveAt(tokens, d.prev_i)
       IN /\ d.action = "Remove"
          /\ IF Kind(removed, d.prev_i) = "Whitespace"
             THEN /\ tokens' = RemoveAt(removed, d.prev_i)
                  /\ next_i' = next_i - 1
             ELSE /\ tokens' = removed
                  /\ next_i' = next_i
    /\ UNCHANGED <<pc, CommaFixed>>

CommaEnd ==
    /\ pc = "comma"
    /\ next_i >= Len(tokens)
    /\ pc' = "comma_done"
    /\ UNCHANGED <<tokens, next_i, CommaFixed>>

NextComma == CommaOther \/ CommaKeep \/ CommaAdd \/ CommaRemove \/ CommaEnd

ValueLine == <<Tok("SimpleKey", <<"a">>), WS(1), KeyValSep, WS(1)>> \o S1 \o <<NL>>

\* arrays with an empty array or an empty inline table among their elements,
\* and an array that holds only a comment
EmptyInside ==
    {<<AOpen, AOpen, AClose, AClose>>,
     <<AOpen>> \o S1 \o <<VAL_SEP, WS(1), AOpen, AClose, AClose>>,
     <<AOpen, AOpen, AClose, VAL_SEP, WS(1)>> \o S1 \o <<AClose>>,
     <<AOpen, NL, WS(4)>> \o S1 \o <<VAL_SEP, NL, WS(4), AOpen, AClose, VAL_SEP, NL, AClose>>,
     <<AOpen>> \o S1 \o <<VAL_SEP, WS(1), TOpen, TClose, AClose>>,
     <<AOpen, NL, WS(4), Comment, NL, AClose>>}

\* inline tables as the value of a key
TableValues ==
    InnerTables \cup
    {<<TOpen, TClose>>,
     <<TOpen, WS(1), KeyTok(1), WS(1), KeyValSep, WS(1)>> \o S1 \o <<WS(1), TClose>>,
     <<TOpen, WS(1), KeyTok(1), WS(1), KeyValSep, WS(1)>> \o S1
         \o <<VAL_SEP, WS(1), TClose>>,
     <<TOpen, WS(1), KeyTok(1), WS(1), KeyValSep, WS(1), AOpen, AClose, WS(1), TClose>>}

CommaInputs ==
    {pre \o Document(1, v) :
        pre \in {<<>>, ValueLine},
        v \in ScalarArrays \cup NestedArrays \cup EmptyInside \cup TableValues}

InitComma ==
    /\ tokens \in CommaInputs
    /\ manifest_config \in {[set |-> TRUE, trailing_comma |-> tactic] :
                               tactic \in SeparatorTactic}
    /\ derived = NoWidth
    /\ array_width = 0
    /\ element_threshold = 0
    /\ tab_spaces = 4
    /\ next_i = 0
    /\ inline_table_depth = 0
    /\ nesting_depth = 0
    /\ pc = "comma"
    /\ run = 1
    /\ input = tokens
    /\ out1 = <<>>
    /\ last = NoCall
    /\ log = <<>>

SpecComma == InitComma /\ [][NextComma]_vars

----------------------------------------------------------------------------
(* The passes fmt_manifest (src/lib.rs) runs around reflow_arrays.  Each   *)
(* is one loop over the stream; the operator takes the stream and the loop *)
(* index and returns the stream the pass leaves.                           *)

SetTok(t, i, tok) == [t EXCEPT ![i + 1] = tok]
IsKind(t, i, kinds) == i >= 0 /\ i < Len(t) /\ Kind(t, i) \in kinds

\* a token whose raw text is Cow::Owned; Tok builds the Cow::Borrowed ones
OwnedTok(k, r) == [kind |-> k, raw |-> r, owned |-> TRUE]
IsOwned(tok) == "owned" \in DOMAIN tok

RECURSIVE TrimEnd(_)
\* str::trim_end
TrimEnd(raw) ==
    IF raw # <<>> /\ raw[Len(raw)] \in {" ", "\t"}
    THEN TrimEnd(SubSeq(raw, 1, Len(raw) - 1))
    ELSE raw

\* the match on the comment's raw: a borrowed text is replaced by its
\* trim_end; in an owned text the range 0..trimmed.len() is replaced by ""
trim_comment(tok) ==
    IF IsOwned(tok)
    THEN OwnedTok("Comment", SubSeq(tok.raw, Len(TrimEnd(tok.raw)) + 1, Len(tok.raw)))
    ELSE Tok("Comment", TrimEnd(tok.raw))

\* src/formatting/trailing_spaces.rs
trim_trailing_spaces(t) ==
    LET blanked == [k \in 1..Len(t) |->
                      IF t[k].kind = "Whitespace"
                         /\ (k = Len(t) \/ t[k + 1].kind = "Newline")
                      THEN EMPTY ELSE t[k]]
        trimmed == trim_empty_whitespace(blanked)
    IN [k \in 1..Len(trimmed) |->
          IF trimmed[k].kind = "Comment" THEN trim_comment(trimmed[k]) ELSE trimmed[k]]

\* the nearest token before i that is not whitespace, newline or comment
find_prev_non_trivia(t, i) ==
    LET S == {j \in 0..(i - 1) : Kind(t, j) \notin {"Whitespace", "Newline", "Comment"}}
    IN IF S = {} THEN NoIndex ELSE SetMax(S)

\* KeyValSep and ValueSep: the separator is moved next to the token before it
move_separator(t, i) ==
    LET anchor == find_prev_non_trivia(t, i)
    IN IF anchor = NoIndex THEN [t |-> t, i |-> i, next |-> i + 1]
       ELSE LET new_i == IF Kind(t, anchor + 1) = "Whitespace"
                         THEN anchor + 2 ELSE anchor + 1
            IN [t |-> InsertAt(RemoveAt(t, i), new_i, At(t, i)),
                i |-> new_i, next |-> new_i + 1]

space_after(t, i, kinds) ==
    IF IsKind(t, i + 1, {"Whitespace"}) THEN SetTok(t, i + 1, SPACE)
    ELSE IF IsKind(t, i + 1, kinds) THEN InsertAt(t, i + 1, SPACE)
    ELSE t

\* one iteration of the loop of normalize_space_separators at index i
space_separators_step(t, i) ==
    LET k == Kind(t, i)
        same(u) == [t |-> u, next |-> i + 1]
    IN CASE k \in {"StdTableOpen", "ArrayTableOpen", "ArrayOpen"} ->
                same(IF IsKind(t, i + 1, {"Whitespace"}) THEN SetTok(t, i + 1, EMPTY) ELSE t)
         [] k \in {"StdTableClose", "ArrayTableClose", "ArrayClose"} ->
                same(IF IsKind(t, i - 1, {"Whitespace"}) THEN SetTok(t, i - 1, EMPTY) ELSE t)
         [] k = "InlineTableOpen" -> same(space_after(t, i, {"SimpleKey"}))
         [] k = "InlineTableClose" ->
                same(IF IsKind(t, i - 1, {"Whitespace"})
                     THEN IF IsKind(t, i - 2, {"InlineTableOpen"})
                          THEN SetTok(t, i - 1, EMPTY)
                          ELSE SetTok(t, i - 1, SPACE)
                     ELSE IF IsKind(t, i - 1, {"Scalar", "ValueSep"})
                          THEN InsertAt(t, i, SPACE)
                          ELSE t)
         [] k = "KeySep" ->
                LET u == IF IsKind(t, i - 1, {"Whitespace"})
                         THEN SetTok(t, i - 1, EMPTY) ELSE t
                IN same(IF IsKind(u, i + 1, {"Whitespace"})
                        THEN SetTok(u, i + 1, EMPTY) ELSE u)
         [] k = "KeyValSep" ->
                LET m == move_separator(t, i)
                    u == IF IsKind(m.t, m.i - 1, {"Whitespace"})
                         THEN SetTok(m.t, m.i - 1, SPACE)
                         ELSE IF IsKind(m.t, m.i - 1, {"SimpleKey"})
                              THEN InsertAt(m.t, m.i, SPACE)
                              ELSE m.t
                IN [t |-> space_after(u, m.i, {"Scalar"}), next |-> m.next]
         [] k = "ValueSep" ->
                LET m == move_separator(t, i)
                    u == IF IsKind(m.t, m.i - 1, {"Whitespace"})
                         THEN SetTok(m.t, m.i - 1, EMPTY) ELSE m.t
                IN [t |-> space_after(u, m.i, {"SimpleKey", "Scalar"}), next |-> m.next]
         [] k = "Comment" ->
                same(IF IsKind(t, i - 1, {"Whitespace"}) THEN SetTok(t, i - 1, SPACE)
                     ELSE IF i >= 1 /\ Kind(t, i - 1) # "Newline"
                          THEN InsertAt(t, i, SPACE)
                          ELSE t)
         [] OTHER -> same(t)

RECURSIVE space_separators_loop(_, _)
space_separators_loop(t, i) ==
    IF i >= Len(t) THEN t
    ELSE LET r == space_separators_step(t, i)
         IN space_separators_loop(r.t, r.next)

\* src/formatting/space_separators.rs
normalize_space_separators(t) == trim_empty_whitespace(space_separators_loop(t, 0))

\* the number of Newline tokens from index i on, up to the first other token
RECURSIVE newline_run(_, _)
newline_run(t, i) ==
    IF IsKind(t, i, {"Newline"}) THEN 1 + newline_run(t, i + 1) ELSE 0

\* Ord::clamp; it asserts min <= max, so the caller checks that first
\* (Clamp_lower_only: a clamp that forgets the upper bound)
Clamp_lower_only(n, lo, hi) == IF n < lo THEN lo ELSE n
Clamp(n, lo, hi) == IF n < lo THEN lo ELSE IF n > hi THEN hi ELSE n

\* what the pass returns when clamp's assertion fails: the thread panics
\* and no stream is returned
Panicked == <<Tok("Error", <<"p", "a", "n", "i", "c">>)>>

RECURSIVE blank_lines_loop(_, _, _, _, _)
blank_lines_loop(t, i, depth, min, max) ==
    IF i >= Len(t) THEN t
    ELSE CASE Kind(t, i) \in {"ArrayOpen", "InlineTableOpen"} ->
                  blank_lines_loop(t, i + 1, depth + 1, min, max)
           [] Kind(t, i) \in {"ArrayClose", "InlineTableClose"} ->
                  blank_lines_loop(t, i + 1, depth - 1, min, max)
           [] Kind(t, i) = "Newline" /\ i = 0 ->
                  blank_lines_loop(RemoveAt(t, 0), 0, depth, min, max)
           [] Kind(t, i) = "Newline" /\ i > 0 /\ i + 1 < Len(t) ->
                  IF depth = 0 /\ min > max THEN Panicked
                  ELSE
                  LET actual == newline_run(t, i + 1)
                      constrained == IF depth # 0 THEN 0 ELSE Clamp(actual, min, max)
                      u == IF actual >= constrained
                           THEN SubSeq(t, 1, i + 1)
                                \o SubSeq(t, i + 2 + (actual - constrained), Len(t))
                           ELSE SubSeq(t, 1, i + 1)
                                \o [n \in 1..(constrained - actual) |-> NL]
                                \o SubSeq(t, i + 2, Len(t))
                  IN blank_lines_loop(u, i + 1 + constrained, depth, min, max)
           [] OTHER -> blank_lines_loop(t, i + 1, depth, min, max)

\* src/formatting/blank_lines.rs
constrain_blank_lines(t, min, max) == blank_lines_loop(t, 0, 0, min, max)

\* the tokens from i up to the first newline, comment or opening bracket
RECURSIVE token_line_count(_, _)
token_line_count(t, i) ==
    IF i >= Len(t) \/ Kind(t, i) \in {"Newline", "Comment", "ArrayOpen", "InlineTableOpen"}
    THEN 0 ELSE 1 + token_line_count(t, i + 1)

close_count(t, i) ==
    Cardinality({j \in i..(i + token_line_count(t, i)) :
                    IsKind(t, j, {"ArrayClose", "InlineTableClose"})})

\* PaddingBuffer::whitespace
padding(depth, hard_tabs, tabs) ==
    Tok("Whitespace",
        IF hard_tabs THEN [n \in 1..depth |-> "\t"] ELSE Spaces(depth * tabs))

RECURSIVE indent_loop(_, _, _, _, _)
indent_loop(t, i, depth, hard_tabs, tabs) ==
    IF i >= Len(t) THEN t
    ELSE CASE Kind(t, i) \in {"ArrayOpen", "InlineTableOpen"} ->
                  indent_loop(t, i + 1, depth + 1, hard_tabs, tabs)
           [] Kind(t, i) \in {"ArrayClose", "InlineTableClose"} ->
                  indent_loop(t, i + 1, depth - 1, hard_tabs, tabs)
           [] Kind(t, i) = "Newline" /\ i + 1 < Len(t) ->
                  LET ws == padding(depth - close_count(t, i + 1), hard_tabs, tabs)
                      u == CASE Kind(t, i + 1) = "Newline" -> t
                             [] Kind(t, i + 1) = "Whitespace" /\ depth = 0 ->
                                    SetTok(t, i + 1, EMPTY)
                             [] Kind(t, i + 1) = "Whitespace" /\ depth # 0 ->
                                    SetTok(t, i + 1, ws)
                             [] Kind(t, i + 1) \notin {"Newline", "Whitespace"}
                                /\ depth = 0 -> t
                             [] OTHER -> InsertAt(t, i + 1, ws)
                  IN indent_loop(u, i + 1, depth, hard_tabs, tabs)
           [] OTHER -> indent_loop(t, i + 1, depth, hard_tabs, tabs)

\* src/formatting/indent.rs
normalize_indent(t, hard_tabs, tabs) ==
    trim_empty_whitespace(indent_loop(t, 0, 0, hard_tabs, tabs))

----------------------------------------------------------------------------
(* fmt_manifest (src/lib.rs) as a state machine: one step per pass, the    *)
(* steps of reflow_arrays and adjust_trailing_comma in between.  The       *)
(* documents hold integers only and no table headers, so normalize_strings,*)
(* normalize_datetime_separators and remove_unused_parent_tables, which    *)
(* rewrite strings, datetimes and headers only, leave them as they are;    *)
(* their line ends are "\n", which apply_newline_style keeps.              *)

ManifestValues ==
    {a \in ScalarArrays \cup NestedArrays : \A k \in 1..Len(a) : a[k] # SW[1]}

ManifestInputs == {Document(1, a) : a \in ManifestValues}

ManifestWidths == {10, 100}

ManifestConfigs ==
    {[set |-> TRUE, max_width |-> FromNat(w), array_width |-> None,
      use_small_heuristics |-> h, tab_spaces |-> 4, hard_tabs |-> FALSE,
      trailing_comma |-> tactic,
      blank_lines_lower_bound |-> 0, blank_lines_upper_bound |-> 1] :
        w \in ManifestWidths, h \in {"Off", "Max"}, tactic \in SeparatorTactic}

InitManifest ==
    /\ tokens \in ManifestInputs
    /\ manifest_config \in ManifestConfigs
    /\ derived = NoWidth
    /\ array_width = 0
    /\ element_threshold = 0
    /\ tab_spaces = 0
    /\ next_i = 0
    /\ inline_table_depth = 0
    /\ nesting_depth = 0
    /\ pc = "parsed"
    /\ run = 1
    /\ input = tokens
    /\ out1 = <<>>
    /\ last = NoCall
    /\ log = <<>>

PassFixed == <<next_i, inline_table_depth, nesting_depth, Params, run, input, out1,
               last, log>>

TrimTrailingSpaces ==
    /\ pc = "parsed"
    /\ tokens' = trim_trailing_spaces(tokens)
    /\ pc' = "trimmed"
    /\ UNCHANGED PassFixed

NormalizeSpaceSeparators ==
    /\ pc = "trimmed"
    /\ tokens' = normalize_space_separators(tokens)
    /\ pc' = "spaced"
    /\ UNCHANGED PassFixed

\* reflow_arrays(&mut tokens, config.max_width, config.array_width(),
\* config.tab_spaces)
CallReflowArrays ==
    /\ pc = "spaced"
    /\ derived' = Config_array_width(manifest_config)
    /\ array_width' = ToNat(manifest_config.max_width)
    /\ element_threshold' = ToNat(derived')
    /\ tab_spaces' = manifest_config.tab_spaces
    /\ pc' = "scan"
    /\ UNCHANGED <<tokens, next_i, inline_table_depth, nesting_depth, run, input, out1,
                   last, log, manifest_config>>

ConstrainBlankLines ==
    /\ pc = "done"
    /\ manifest_config.set
    /\ LET r == constrain_blank_lines(tokens, manifest_config.blank_lines_lower_bound,
                                      manifest_config.blank_lines_upper_bound)
       IN IF r = Panicked
          THEN pc' = "panicked" /\ tokens' = tokens
          ELSE pc' = "comma" /\ tokens' = r
    /\ next_i' = 0
    /\ UNCHANGED <<inline_table_depth, nesting_depth, Params, run, input, out1, last, log>>

NormalizeIndent ==
    /\ pc = "comma_done"
    /\ tokens' = normalize_indent(tokens, manifest_config.hard_tabs,
                                  manifest_config.tab_spaces)
    /\ pc' = "formatted"
    /\ UNCHANGED PassFixed

NextManifest ==
    \/ TrimTrailingSpaces
    \/ NormalizeSpaceSeparators
    \/ CallReflowArrays
    \/ ScanInlineTableOpen
    \/ ScanInlineTableClose
    \/ ScanArrayOpen
    \/ ScanArrayClose
    \/ ScanOther
    \/ ScanEnd
    \/ ConstrainBlankLines
    \/ CommaOther
    \/ CommaKeep
    \/ CommaAdd
    \/ CommaRemove
    \/ CommaEnd
    \/ NormalizeIndent

SpecManifest == InitManifest /\ [][NextManifest]_vars

----------------------------------------------------------------------------
(* trim_trailing_spaces called on its own, on streams whose comments are   *)
(* borrowed from the source or owned replacement strings                   *)

CommentVariants ==
    {Tok("Comment", <<"#", "c">>), Tok("Comment", <<"#", "c", " ">>),
     Tok("Comment", <<"#", " ", "c", " ", "\t">>),
     OwnedTok("Comment", <<"#", "c">>), OwnedTok("Comment", <<"#", "c", " ", " ">>)}

TrimLines(c) ==
    {<<>>,
     <<WS(2), NL>>,
     <<KeyTok(1), WS(1), KeyValSep, WS(1)>> \o S1 \o <<WS(2), NL>>,
     <<KeyTok(1), WS(1), KeyValSep, WS(1)>> \o S1 \o <<WS(2), c, NL>>,
     <<c, NL>>,
     <<KeyTok(1), WS(1), KeyValSep, WS(1), AOpen, WS(2), NL, WS(2)>> \o S1
         \o <<WS(2), VAL_SEP, WS(2), NL, AClose, WS(2), NL>>}

TrimInputsWith(c) ==
    {l1 \o l2 \o e : l1 \in TrimLines(c), l2 \in TrimLines(c), e \in {<<>>, <<WS(2)>>, <<c>>}}

TrimInputs == UNION {TrimInputsWith(c) : c \in CommentVariants}

InitTrim ==
    /\ tokens \in TrimInputs
    /\ manifest_config = NoConfig
    /\ derived = NoWidth
    /\ array_width = 0
    /\ element_threshold = 0
    /\ tab_spaces = 4
    /\ next_i = 0
    /\ inline_table_depth = 0
    /\ nesting_depth = 0
    /\ pc = "parsed"
    /\ run = 1
    /\ input = tokens
    /\ out1 = <<>>
    /\ last = NoCall
    /\ log = <<>>

NextTrim == TrimTrailingSpaces

SpecTrim == InitTrim /\ [][NextTrim]_vars

----------------------------------------------------------------------------
(* constrain_blank_lines on its own: documents with runs of newlines at    *)
(* the start, between lines, inside arrays and at the end, under several   *)
(* (min, max) pairs, those with min > max included                         *)

MaxBlankRun == 3

Newlines(n) == [j \in 1..n |-> NL]

\* a "k = [ ... ]" line whose array is vertical and has r blank lines inside
BlankArrayLine(r) ==
    <<Tok("SimpleKey", <<"k">>), WS(1), KeyValSep, WS(1), AOpen, NL>>
        \o Newlines(r) \o <<WS(4)>> \o S1 \o <<VAL_SEP, NL>> \o Newlines(r)
        \o <<AClose, NL>>

BlankLinesOf == {ValueLine, <<Tok("Comment", <<"#", "c">>), NL>>}
                \cup {BlankArrayLine(r) : r \in 0..(MaxBlankRun - 1)}

BlankInputs ==
    {Newlines(s) \o l1 \o Newlines(r1) \o l2 \o Newlines(r2) \o l3 \o Newlines(e) :
        s \in 0..(MaxBlankRun - 1), l1 \in BlankLinesOf, r1 \in 0..MaxBlankRun,
        l2 \in BlankLinesOf, r2 \in 0..MaxBlankRun, l3 \in BlankLinesOf,
        e \in 0..(MaxBlankRun - 1)}

BlankBounds == {<<0, 1>>, <<0, 0>>, <<1, 1>>, <<1, 2>>, <<2, 3>>, <<0, 2>>,
                <<1, 0>>, <<2, 1>>}

BlankConfigs ==
    {[set |-> TRUE, max_width |-> FromNat(100), array_width |-> None,
      use_small_heuristics |-> "Default", tab_spaces |-> 4, hard_tabs |-> FALSE,
      trailing_comma |-> "Vertical",
      blank_lines_lower_bound |-> b[1], blank_lines_upper_bound |-> b[2]] :
        b \in BlankBounds}

InitBlank ==
    /\ tokens \in BlankInputs
    /\ manifest_config \in BlankConfigs
    /\ derived = NoWidth
    /\ array_width = 0
    /\ element_threshold = 0
    /\ tab_spaces = 4
    /\ next_i = 0
    /\ inline_table_depth = 0
    /\ nesting_depth = 0
    /\ pc = "done"
    /\ run = 1
    /\ input = tokens
    /\ out1 = <<>>
    /\ last = NoCall
    /\ log = <<>>

NextBlank == ConstrainBlankLines

SpecBlank == InitBlank /\ [][NextBlank]_vars

----------------------------------------------------------------------------
(* reflow_arrays on vertical arrays that are packed several elements per   *)
(* line: elements of one width, with a comment that rules out a collapse   *)

MaxGrouped == 4

S55555 == <<Scalar(<<"5", "5", "5", "5", "5">>)>>

UniformLists == {[k \in 1..n |-> e] : n \in 3..MaxGrouped, e \in {S1, S55555}}

\* the elements on one line with a comment on its own line before the close
\* bracket; a comment behind the first element; a comment before the first
GroupedArrays ==
    {<<AOpen, NL, WS(4)>> \o JoinElems(es, 1, <<VAL_SEP, WS(1)>>)
         \o <<VAL_SEP, NL, WS(4), Comment, NL, AClose>> : es \in UniformLists}
    \cup {<<AOpen, NL, WS(4)>> \o es[1] \o <<VAL_SEP, WS(1), Comment, NL, WS(4)>>
              \o JoinElems(Tail(es), 1, <<VAL_SEP, WS(1)>>) \o <<NL, AClose>> :
              es \in UniformLists}
    \cup {<<AOpen, NL, WS(4), Comment, NL, WS(4)>>
              \o JoinElems(es, 1, <<VAL_SEP, WS(1)>>) \o <<NL, AClose>> :
              es \in UniformLists}

GroupedInputs ==
    {Document(1, a) : a \in GroupedArrays}
    \cup {Document(1, <<AOpen>> \o e \o <<AClose>>) : e \in InnerTables}

GroupedWidths == 8..24

InitGrouped ==
    /\ tokens \in GroupedInputs
    /\ array_width \in GroupedWidths
    /\ element_threshold \in Thresholds
    /\ tab_spaces \in TabSpaces
    /\ next_i = 0
    /\ inline_table_depth = 0
    /\ nesting_depth = 0
    /\ pc = "scan"
    /\ run = 1
    /\ input = tokens
    /\ out1 = <<>>
    /\ last = NoCall
    /\ log = <<>>
    /\ manifest_config = NoConfig
    /\ derived = NoWidth

SpecGrouped == InitGrouped /\ [][Next]_vars

----------------------------------------------------------------------------
(* Observations on token streams, used to state the properties             *)

RECURSIVE Text(_)
\* TomlTokens::to_string: the tokens' raw text, concatenated
Text(t) == IF t = <<>> THEN <<>> ELSE Head(t).raw \o Text(Tail(t))

Trivia == {"Whitespace", "Newline", "Comment"}
Opening == {"ArrayOpen", "InlineTableOpen"}
Closing == {"ArrayClose", "InlineTableClose"}

Indices(t) == 0..(Len(t) - 1)
Opens(t) == {i \in Indices(t) : Kind(t, i) = "ArrayOpen"}
\* the number of array brackets opened before index i
Ordinal(t, i) == Cardinality({j \in Opens(t) : j < i})
\* the index of the n-th open bracket (counted from 0)
OpenAt(t, n) == CHOOSE i \in Opens(t) : Ordinal(t, i) = n

CountKinds(t, i, kinds) == Cardinality({j \in Indices(t) : j < i /\ Kind(t, j) \in kinds})
\* the number of array and inline-table brackets that enclose index i
Enclosing(t, i) == CountKinds(t, i, Opening) - CountKinds(t, i, Closing)
\* index i lies inside an inline table
InTable(t, i) ==
    CountKinds(t, i, {"InlineTableOpen"}) > CountKinds(t, i, {"InlineTableClose"})

\* the indices strictly between the array's brackets
Inside(t, open) == (open + 1)..(find_array_close(t, open) - 1)
\* those that belong to the array itself, not to a nested array or table
TopLevel(t, open) == {i \in Inside(t, open) : Enclosing(t, i) = Enclosing(t, open) + 1
                                             /\ Kind(t, i) \notin Closing}
IsVertical(t, open) == \E i \in Inside(t, open) : Kind(t, i) = "Newline"
HasElement(t, open) == \E i \in Inside(t, open) : Kind(t, i) \notin Trivia

\* the tokens that carry the document's values, in order
Skeleton(t) == SelectSeq(t, LAMBDA x : x.kind \notin Trivia \cup {"ValueSep"})
\* the tokens other than whitespace and newlines
Significant(t) == SelectSeq(t, LAMBDA x : x.kind \notin Trivia)

\* a comment runs to the end of its line: whatever follows it before the next
\* newline is read back as part of the comment
CommentsEndLine(t) ==
    \A i \in Indices(t) :
        Kind(t, i) = "Comment" => (i = Len(t) - 1 \/ Kind(t, i + 1) = "Newline")

\* values are separated by one comma, and no bracket is followed by a comma
Separated(t) ==
    LET s == Significant(t)
    IN \A k \in 1..(Len(s) - 1) :
          /\ ~(s[k].kind \in {"Scalar"} \cup Closing
               /\ s[k + 1].kind \in {"Scalar"} \cup Opening)
          /\ ~(s[k].kind \in {"ValueSep"} \cup Opening /\ s[k + 1].kind = "ValueSep")

\* no line break inside an inline table
TablesOnOneLine(t) == \A i \in Indices(t) : Kind(t, i) = "Newline" => ~InTable(t, i)

ValidToml(t) == CommentsEndLine(t) /\ Separated(t) /\ TablesOnOneLine(t)

\* the next token after index i that is not whitespace, newline or comment
NextSig(t, i) ==
    LET S == {j \in (i + 1)..(Len(t) - 1) : Kind(t, j) \notin Trivia}
    IN IF S = {} THEN NoIndex ELSE SetMin(S)
\* the bracket that closes the one at index i
MatchClose(t, i) ==
    SetMin({j \in (i + 1)..(Len(t) - 1) : Enclosing(t, j + 1) = Enclosing(t, i)})
\* the array's own elements, each named by the index of its first token
Elements(t, open) == {i \in TopLevel(t, open) : Kind(t, i) \notin Trivia \cup {"ValueSep"}}
ElementEnd(t, i) == IF Kind(t, i) \in Opening THEN MatchClose(t, i) ELSE i
\* display width of an element's text, nested brackets and inner spaces included
ElementWidth(t, i, tabs) == RangeWidth(t, i, ElementEnd(t, i), tabs)
TopCommas(t, open) == {i \in TopLevel(t, open) : Kind(t, i) = "ValueSep"}
HasTrailingComma(t, open) ==
    \E i \in TopCommas(t, open) : NextSig(t, i) = find_array_close(t, open)
\* display width of the array's line, from line start through the close bracket
LineWidth(t, open, tabs) ==
    RangeWidth(t, find_line_start(t, open), find_array_close(t, open), tabs)
\* the tokens strictly between the array's brackets
Content(t, open) == SubSeq(t, open + 2, find_array_close(t, open))
\* width of the array's line once the array is collapsed: key prefix through
\* close bracket, a single space after each comma, no trailing comma
FullyCollapsedWidth(t, open, tabs) ==
    LineWidth(collapse_array_to_horizontal(t, open, find_array_close(t, open)),
              open, tabs)
\* the comments of the stream, in order
Comments(t) == {i \in Indices(t) : Kind(t, i) = "Comment"}
CommentAt(t, n) ==
    CHOOSE i \in Comments(t) : Cardinality({j \in Comments(t) : j < i}) = n

\* the state right after process_array was called for an array
AfterCall == pc = "scan" /\ last.action # "Init" /\ next_i = last.open + 1
\* the open bracket of that array, in the stream as it is now
OpenNow == OpenAt(tokens, Ordinal(last.before, last.open))

----------------------------------------------------------------------------
(* C1: a second run of reflow_arrays with the same parameters on the       *)
(* output of a first run leaves the text byte-identical.                    *)
C1_Idempotent == (pc = "done" /\ run = 2) => Text(tokens) = Text(out1)

(* C2: after reflow_arrays on a valid document the text is still a valid   *)
(* document holding the same values in the same order; nothing is lost or  *)
(* absorbed into a comment.                                                 *)
C2_RoundTrip ==
    (pc = "done" /\ ValidToml(input)) =>
        (ValidToml(tokens) /\ Skeleton(tokens) = Skeleton(input))

(* C3: a vertical array outside inline tables whose comment position is  *)
(* None or LastElementOnly and whose fully collapsed line fits in          *)
(* array_width is output as a single line; for LastElementOnly all its     *)
(* elements and the comment are on one line and the close bracket is on    *)
(* the next (a line break after the open bracket is not counted).          *)
C3_CollapseRespected ==
    (/\ AfterCall
     /\ IsVertical(last.before, last.open)
     /\ ~InTable(last.before, last.open)
     /\ comment_position(last.before, last.open,
            find_array_close(last.before, last.open)) \in {"None", "LastElementOnly"}
     /\ FullyCollapsedWidth(last.before, last.open, tab_spaces) <= array_width)
    => LET o == OpenNow
           close == find_array_close(tokens, o)
           NLs == {i \in Inside(tokens, o) : Kind(tokens, i) = "Newline"}
       IN IF comment_position(last.before, last.open,
                 find_array_close(last.before, last.open)) = "None"
          THEN NLs = {}
          ELSE \E c \in Inside(tokens, o) :
                  /\ Kind(tokens, c) = "Comment"
                  /\ NextSig(tokens, c) = close
                  /\ c + 1 \in NLs
                  /\ NLs \subseteq {o + 1, c + 1}

\* the lines of the array between its brackets, each as its first and last index
ContentLines(t, open) ==
    LET NLs == {i \in TopLevel(t, open) : Kind(t, i) = "Newline"}
    IN {<<a + 1, SetMin({b \in NLs : b > a}) - 1>> :
            a \in {x \in NLs : \E b \in NLs : b > x}}

(* C4: a horizontal array whose line is wider than array_width is vertical *)
(* in the output, and a content line of it that is wider than array_width  *)
(* holds no more than a single element.  An array that is still horizontal *)
(* in the output counts only if its line is still wider than array_width.  *)
C4_WidthRespected ==
    /\ (/\ AfterCall
        /\ ~IsVertical(last.before, last.open)
        /\ ~InTable(last.before, last.open)
        /\ LineWidth(last.before, last.open, tab_spaces) > array_width)
       => /\ IsVertical(tokens, OpenNow)
          /\ \A ln \in ContentLines(tokens, OpenNow) :
                \/ RangeWidth(tokens, ln[1], ln[2], tab_spaces) <= array_width
                \/ Cardinality({e \in Elements(tokens, OpenNow) :
                                    ln[1] <= e /\ e <= ln[2]}) <= 1
    /\ (pc = "done" /\ run = 1)
       => \A n \in 0..(Cardinality(Opens(input)) - 1) :
             (/\ ~IsVertical(input, OpenAt(input, n))
              /\ ~InTable(input, OpenAt(input, n))
              /\ LineWidth(input, OpenAt(input, n), tab_spaces) > array_width)
             => \/ IsVertical(tokens, OpenAt(tokens, n))
                \/ LineWidth(tokens, OpenAt(tokens, n), tab_spaces) <= array_width

\* the comment at index c lies in an array, outside inline tables, that is
\* classified NonLastElement or BeforeClose
InCommentedArray(t, c) ==
    \E o \in Opens(t) :
        /\ ~InTable(t, o)
        /\ c \in Inside(t, o)
        /\ comment_position(t, o, find_array_close(t, o))
              \in {"NonLastElement", "BeforeClose"}

(* C5: a comment of an array classified NonLastElement or BeforeClose is   *)
(* never joined onto a later line: in the output the comment still ends    *)
(* its line, no element follows it there.  (That a comment alone on its    *)
(* line may end the preceding element's line is not counted against the    *)
(* property.)                                                               *)
C5_CommentImmovable ==
    (pc = "done" /\ run = 1)
    => \A n \in 0..(Cardinality(Comments(input)) - 1) :
          InCommentedArray(input, CommentAt(input, n))
          => Kind(tokens, CommentAt(tokens, n) + 1) = "Newline"

\* after Expand every top-level element is followed by a comma, and one
\* comma was added exactly when the last element had none
ExpandCommas ==
    LET o == OpenNow
    IN /\ \A e \in Elements(tokens, o) :
             Kind(tokens, NextSig(tokens, ElementEnd(tokens, e))) = "ValueSep"
       /\ Cardinality(TopCommas(tokens, o))
            = Cardinality(TopCommas(last.before, last.open))
              + (IF HasTrailingComma(last.before, last.open)
                    \/ Elements(last.before, last.open) = {}
                 THEN 0 ELSE 1)

(* C6: after Expand every top-level element, the last included, is         *)
(* followed by a comma (one is added exactly when the last element had     *)
(* none); after Collapse, in either variant, there is no trailing comma.    *)
C6_TrailingComma ==
    AfterCall =>
        /\ last.action = "Expand" => ExpandCommas
        /\ last.action \in {"Collapse", "CollapseWithComment"}
              => ~HasTrailingComma(tokens, OpenNow)

(* C6 as amended: after Expand every top-level element is followed by a    *)
(* comma (one added exactly when the last had none); after Collapse there  *)
(* is no trailing comma; CollapseWithComment leaves the trailing comma as  *)
(* it was.                                                                  *)
C6_TrailingCommaAmended ==
    AfterCall =>
        /\ last.action = "Expand" => ExpandCommas
        /\ last.action = "Collapse" => ~HasTrailingComma(tokens, OpenNow)
        /\ last.action = "CollapseWithComment"
              => (HasTrailingComma(tokens, OpenNow)
                    <=> HasTrailingComma(last.before, last.open))

\* C6: CollapseWithComment was applied to an array whose last element is
\* followed by a comma, and the comma is still there
C6_Witness ==
    /\ AfterCall
    /\ last.action = "CollapseWithComment"
    /\ HasTrailingComma(last.before, last.open)
    /\ HasTrailingComma(tokens, OpenNow)

(* C7: a horizontal array outside inline tables is expanded exactly when   *)
(* its line is wider than array_width or a top-level element is wider than *)
(* element_threshold; otherwise its tokens are left unchanged.              *)
C7_ExpandDecision ==
    (/\ AfterCall
     /\ ~IsVertical(last.before, last.open)
     /\ ~InTable(last.before, last.open))
    => LET wide == \/ LineWidth(last.before, last.open, tab_spaces) > array_width
                   \/ \E e \in Elements(last.before, last.open) :
                         ElementWidth(last.before, e, tab_spaces) > element_threshold
       IN /\ (last.action = "Expand") <=> wide
          /\ ~wide => tokens = last.before

\* the token at index i is an indent of n spaces (no token when n = 0)
IndentIs(t, i, n) ==
    IF n = 0 THEN Kind(t, i) # "Whitespace" ELSE At(t, i) = Tok("Whitespace", Spaces(n))

(* C8: after Expand of an array enclosed by d brackets a newline follows   *)
(* the open bracket, every top-level element starts its own line behind an *)
(* indent of (d+1)*tab_spaces spaces, and the close bracket is on its own  *)
(* line behind an indent of d*tab_spaces spaces.  (Whitespace the input    *)
(* had after the open bracket, kept behind the indent, is not counted.)    *)
C8_ExpandLayout ==
    (AfterCall /\ last.action = "Expand")
    => LET o == OpenNow
           close == find_array_close(tokens, o)
           d == Enclosing(tokens, o)
       IN /\ Kind(tokens, o + 1) = "Newline"
          /\ \A e \in Elements(tokens, o) :
                LET ls == find_line_start(tokens, e)
                IN /\ ls > o
                   /\ \A j \in ls..(e - 1) : Kind(tokens, j) = "Whitespace"
                   /\ IndentIs(tokens, ls, (d + 1) * tab_spaces)
          /\ LET ls == find_line_start(tokens, close)
             IN /\ ls > o
                /\ IndentIs(tokens, ls, d * tab_spaces)
                /\ close <= ls + 1

(* C9: the tokens between the brackets of an array that lies inside an     *)
(* inline table are the same before and after reflow_arrays.                *)
C9_InlineTableArraysUntouched ==
    pc = "done"
    => \A n \in 0..(Cardinality(Opens(input)) - 1) :
          InTable(input, OpenAt(input, n))
          => Content(tokens, OpenAt(tokens, n)) = Content(input, OpenAt(input, n))

(* C10: with array_width = 0 every non-empty array outside inline tables   *)
(* is vertical in the output and no array is collapsed.                     *)
C10_ZeroWidthExpandsAll ==
    (pc = "done" /\ run = 1 /\ array_width = 0) =>
        /\ \A i \in Opens(tokens) :
              (~InTable(tokens, i) /\ HasElement(tokens, i)) => IsVertical(tokens, i)
        /\ \A k \in 1..Len(log) : log[k].action \notin {"Collapse", "CollapseWithComment"}

(* C11: with array_width = usize::MAX no horizontal array is expanded, and  *)
(* a horizontal array is left unchanged.                                    *)
C11_MaxWidthKeepsHorizontal ==
    (/\ AfterCall
     /\ array_width = USIZE_MAX
     /\ ~IsVertical(last.before, last.open)
     /\ ~InTable(last.before, last.open))
    => (last.action # "Expand" /\ tokens = last.before)

\* some width collect_element_widths reports for the array is above the threshold
ElementOverThreshold(t, open) ==
    LET widths == collect_element_widths(t, open, find_array_close(t, open))
    IN \E k \in 1..Len(widths) : widths[k] > element_threshold

(* C11 as amended: with array_width = usize::MAX no horizontal array is    *)
(* expanded on account of its line width: it is expanded only when          *)
(* collect_element_widths reports an element above element_threshold, and  *)
(* is left unchanged otherwise.                                             *)
C11_MaxWidthAmended ==
    (/\ AfterCall
     /\ array_width = USIZE_MAX
     /\ ~IsVertical(last.before, last.open)
     /\ ~InTable(last.before, last.open))
    => /\ (last.action = "Expand") <=> ElementOverThreshold(last.before, last.open)
       /\ ~ElementOverThreshold(last.before, last.open) => tokens = last.before

\* C11: a horizontal array on a line of 10 columns or more was left
\* unchanged under array_width = usize::MAX
C11_Witness ==
    /\ AfterCall
    /\ array_width = USIZE_MAX
    /\ ~IsVertical(last.before, last.open)
    /\ ~InTable(last.before, last.open)
    /\ HasElement(last.before, last.open)
    /\ LineWidth(last.before, last.open, tab_spaces) >= 10
    /\ last.action = "None"
    /\ tokens = last.before

\* no ArrayClose after the open bracket brings the bracket depth back to zero
Unclosed(t, open) ==
    \A j \in (open + 1)..(Len(t) - 1) :
        Kind(t, j) = "ArrayClose"
        => Cardinality({i \in open..j : Kind(t, i) = "ArrayOpen"})
              > Cardinality({i \in open..j : Kind(t, i) = "ArrayClose"})

(* C12: when the scan reaches an ArrayOpen that has no matching ArrayClose, *)
(* find_array_close returns None, no token is changed, and the scan goes on *)
(* at the token right after the open bracket.                               *)
C12_UnmatchedOpenSkipped ==
    [][(Scanning({"ArrayOpen"}) /\ Unclosed(tokens, next_i))
        => /\ find_array_close(tokens, next_i) = NoIndex
           /\ tokens' = tokens
           /\ pc' = "scan"
           /\ next_i' = next_i + 1]_vars

\* C12: the scan has just passed an unmatched open bracket of an array that
\* holds a nested, matched array
C12_Witness ==
    /\ AfterCall
    /\ Unclosed(last.before, last.open)
    /\ last.action = "None"
    /\ tokens = last.before
    /\ \E i \in (last.open + 1)..(Len(tokens) - 1) : Kind(tokens, i) = "ArrayOpen"

\* the array is in vertical form: a newline before the first element and
\* between any two elements, a comma after the last element, and only
\* whitespace between the last newline and the close bracket
VerticalForm(t, open) ==
    LET close == find_array_close(t, open)
        NLs == {i \in TopLevel(t, open) : Kind(t, i) = "Newline"}
    IN /\ \A e \in Elements(t, open) : \E n \in NLs : n < e
       /\ \A e1, e2 \in Elements(t, open) :
             e1 < e2 => \E n \in NLs : ElementEnd(t, e1) < n /\ n < e2
       /\ HasTrailingComma(t, open)
       /\ \/ Kind(t, close - 1) = "Newline"
          \/ Kind(t, close - 1) = "Whitespace" /\ Kind(t, close - 2) = "Newline"

\* process_array was called for a non-empty vertical array outside inline
\* tables, with comment position None or LastElementOnly, whose collapsed
\* line is wider than array_width
VerticalTooWide ==
    /\ AfterCall
    /\ IsVertical(last.before, last.open)
    /\ ~InTable(last.before, last.open)
    /\ HasElement(last.before, last.open)
    /\ comment_position(last.before, last.open,
                        find_array_close(last.before, last.open))
          \in {"None", "LastElementOnly"}
    /\ FullyCollapsedWidth(last.before, last.open, tab_spaces) > array_width

(* C13: a vertical array with comment position None or LastElementOnly     *)
(* that does not fit array_width is left unchanged only when it is already *)
(* in vertical form (one element per line, trailing comma, close bracket   *)
(* on its own line); every other such array is brought to that form.       *)
C13_ProperlyVerticalOrNormalized ==
    VerticalTooWide
    => /\ tokens = last.before => VerticalForm(last.before, last.open)
       /\ VerticalForm(tokens, OpenNow)

\* process_array was called for a vertical array outside inline tables whose
\* comment position is NonLastElement or BeforeClose
VerticalCommented ==
    /\ AfterCall
    /\ IsVertical(last.before, last.open)
    /\ ~InTable(last.before, last.open)
    /\ comment_position(last.before, last.open,
                        find_array_close(last.before, last.open))
          \in {"NonLastElement", "BeforeClose"}

\* all top-level elements of the array have the same display width
UniformWidths(t, open, tabs) ==
    \A e1, e2 \in Elements(t, open) : ElementWidth(t, e1, tabs) = ElementWidth(t, e2, tabs)

\* no line of the array holds two of its elements
OnePerLine(t, open) ==
    LET NLs == {i \in TopLevel(t, open) : Kind(t, i) = "Newline"}
    IN /\ \A e \in Elements(t, open) : \E n \in NLs : n < e
       /\ \A e1, e2 \in Elements(t, open) :
             e1 < e2 => \E n \in NLs : ElementEnd(t, e1) < n /\ n < e2

ReportedWidthsEqual(t, open) ==
    LET widths == collect_element_widths(t, open, find_array_close(t, open))
    IN \A a, b \in 1..Len(widths) : widths[a] = widths[b]

OnOwnLine(t, c) ==
    \/ Kind(t, c - 1) = "Newline"
    \/ Kind(t, c - 1) = "Whitespace" /\ Kind(t, c - 2) = "Newline"

\* the array holds a comment that forbids collapsing: one before a non-last
\* element, one inside a nested array or inline table, or one on its own
\* line before the close bracket
HasBlockingComment(t, open) ==
    \E c \in Inside(t, open) :
        /\ Kind(t, c) = "Comment"
        /\ \/ c \notin TopLevel(t, open)
           \/ \E e \in Elements(t, open) : e > c
           \/ OnOwnLine(t, c)

(* C15: Collapse and CollapseWithComment are never applied to an array     *)
(* that holds a comment before a non-last element, a comment inside a      *)
(* nested array, or a standalone comment before the close bracket,         *)
(* whatever array_width is.                                                *)
C15_NoCollapseWithBlockingComment ==
    (AfterCall /\ last.action \in {"Collapse", "CollapseWithComment"})
    => ~HasBlockingComment(last.before, last.open)

\* C15: an array with a blocking comment whose collapsed line would fit was
\* processed and not collapsed
C15_Witness ==
    /\ AfterCall
    /\ ~InTable(last.before, last.open)
    /\ HasBlockingComment(last.before, last.open)
    /\ array_width = 40
    /\ last.action \in {"None", "Normalize", "ReflowGrouped"}

\* the comments of the array that stand on their own line with nothing but
\* the close bracket after them
ClosingComments(t, open) ==
    {c \in TopLevel(t, open) :
        /\ Kind(t, c) = "Comment"
        /\ OnOwnLine(t, c)
        /\ NextSig(t, c) = find_array_close(t, open)}

(* C16: in grouped reflow a comment that stood on its own line right before *)
(* the close bracket is, afterwards, alone on its own line directly before  *)
(* the line of the close bracket, whether or not a comma follows the last   *)
(* element.                                                                 *)
C16_ClosingCommentOwnLine ==
    (/\ AfterCall
     /\ last.action = "ReflowGrouped"
     /\ ClosingComments(last.before, last.open) # {})
    => LET close == find_array_close(tokens, OpenNow)
       IN \E c \in ClosingComments(tokens, OpenNow) :
             /\ Kind(tokens, c + 1) = "Newline"
             /\ \/ close = c + 2
                \/ close = c + 3 /\ Kind(tokens, c + 2) = "Whitespace"

\* the n-th top-level element of the array (counted from 1), by its first index
ElementAt(t, open, n) ==
    CHOOSE e \in Elements(t, open) :
        Cardinality({x \in Elements(t, open) : x < e}) = n - 1

(* C17: collect_element_widths reports exactly one width per top-level     *)
(* element, and that width is the display width of the element's text      *)
(* (tab = tab_spaces columns, wide characters 2, combining marks 0), a      *)
(* nested array or inline table counting with its full text, inner spaces  *)
(* included.                                                                *)
C17_ElementWidths ==
    AfterCall
    => LET t == last.before
           open == last.open
           close == find_array_close(t, open)
           widths == collect_element_widths(t, open, close)
       IN close # NoIndex
          => /\ Len(widths) = Cardinality(Elements(t, open))
             /\ \A n \in 1..Len(widths) :
                   widths[n] = ElementWidth(t, ElementAt(t, open, n), tab_spaces)

\* C18: Config::array_width returns the explicit array_width when one is
\* set; otherwise 60% of max_width rounded down for Default, 0 for Off and
\* max_width for Max.
SixtyPercent(n) == DivRem(Mul(n, FromNat(60)), 100).q

C18_ArrayWidth ==
    derived # NoWidth =>
        derived = IF manifest_config.array_width.some
                  THEN manifest_config.array_width.v
                  ELSE CASE manifest_config.use_small_heuristics = "Default" ->
                                SixtyPercent(manifest_config.max_width)
                         [] manifest_config.use_small_heuristics = "Off" -> <<>>
                         [] manifest_config.use_small_heuristics = "Max" ->
                                manifest_config.max_width

\* C20: after adjust_trailing_comma, with Always every non-empty array has
\* a comma after its last value; with Never no array has one; with Vertical
\* an array has one exactly when a newline lies between its last value and
\* its close bracket; empty arrays and inline tables are left unchanged.
CommaDone == pc = "comma_done"
Tactic == manifest_config.trailing_comma
\* the last token of the array's last element
LastValue(t, open) ==
    SetMax({ElementEnd(t, i) : i \in Elements(t, open)})
NewlineAfterLastValue(t, open) ==
    \E j \in (LastValue(t, open) + 1)..(find_array_close(t, open) - 1) :
        Kind(t, j) = "Newline"
NonEmptyArrays(t) == {o \in Opens(t) : HasElement(t, o)}
\* the commas and the whitespace between an array's last value and its close
\* bracket: the only tokens the pass may add or remove
TailTokens(t) ==
    {j \in Indices(t) :
        /\ Kind(t, j) \in {"ValueSep", "Whitespace"}
        /\ \E o \in NonEmptyArrays(t) :
              j > LastValue(t, o) /\ j < find_array_close(t, o)}
RECURSIVE Without(_, _, _)
Without(t, S, i) ==
    IF i >= Len(t) THEN <<>>
    ELSE (IF i \in S THEN <<>> ELSE <<At(t, i)>>) \o Without(t, S, i + 1)
OutsideTails(t) == Without(t, TailTokens(t), 0)

C20_TacticRespected ==
    CommaDone =>
        \A o \in NonEmptyArrays(tokens) :
            CASE Tactic = "Always" -> HasTrailingComma(tokens, o)
              [] Tactic = "Never" -> ~HasTrailingComma(tokens, o)
              [] Tactic = "Vertical" ->
                     HasTrailingComma(tokens, o) <=> NewlineAfterLastValue(tokens, o)

C20_RestUnchanged == CommaDone => OutsideTails(tokens) = OutsideTails(input)

C20_TrailingComma == C20_TacticRespected /\ C20_RestUnchanged

\* C19: with use_small_heuristics = Off and no explicit array_width, every
\* non-empty array outside inline tables in the text fmt_manifest returns is
\* vertical, whether it was horizontal or vertical in the input.
Formatted == pc = "formatted"
AlwaysVertical ==
    manifest_config.use_small_heuristics = "Off" /\ ~manifest_config.array_width.some
C19_OffAlwaysVertical ==
    (Formatted /\ AlwaysVertical) =>
        \A o \in Opens(tokens) :
            (HasElement(tokens, o) /\ ~InTable(tokens, o)) => IsVertical(tokens, o)

\* C26: after reflow_arrays on a valid document every Comment token is
\* immediately followed by a Newline token or is the last token of the
\* stream, at every nesting depth and whatever was done to the enclosing
\* arrays.
C26_CommentsEndTheirLine ==
    (pc = "done" /\ run = 1 /\ ValidToml(input)) => CommentsEndLine(tokens)

\* C27: processing one array changes only tokens strictly between its
\* brackets: the tokens up to and including the open bracket keep their
\* count, kinds and text, and so do the tokens after the matching close
\* bracket.
ClosedBefore == find_array_close(last.before, last.open)
TokensAfterClose == Len(last.before) - ClosedBefore - 1
C27_OnlyBetweenBrackets ==
    (AfterCall /\ ClosedBefore # NoIndex) =>
        /\ Len(tokens) > last.open + TokensAfterClose
        /\ SubSeq(tokens, 1, last.open + 1) = SubSeq(last.before, 1, last.open + 1)
        /\ SubSeq(tokens, Len(tokens) - TokensAfterClose, Len(tokens))
               = SubSeq(last.before, ClosedBefore + 1, Len(last.before))

\* C28: for a vertical array without comments calculate_collapsed_width
\* returns the display width of the line collapse_array_to_horizontal
\* produces, so the array is collapsed exactly when that line fits in
\* array_width.
VerticalPlain ==
    /\ AfterCall
    /\ ClosedBefore # NoIndex
    /\ ~InTable(last.before, last.open)
    /\ IsVertical(last.before, last.open)
    /\ \A i \in Inside(last.before, last.open) : Kind(last.before, i) # "Comment"
C28_CollapsedWidthExact ==
    VerticalPlain =>
        /\ calculate_collapsed_width(last.before, last.open, ClosedBefore, tab_spaces)
               = FullyCollapsedWidth(last.before, last.open, tab_spaces)
        /\ last.action = "Collapse"
               <=> FullyCollapsedWidth(last.before, last.open, tab_spaces) <= array_width

\* C24: after Collapse of an array the tokens between its brackets hold no
\* Newline token, no whitespace token immediately before a comma, no
\* trailing comma of that array, and every remaining comma is followed by
\* exactly one whitespace token whose text is a single space.
Collapsed == AfterCall /\ last.action = "Collapse"
OneSpaceAfter(t, i) ==
    /\ At(t, i + 1) = SPACE
    /\ Kind(t, i + 2) # "Whitespace"
C24_NoNewline ==
    Collapsed => \A i \in Inside(tokens, OpenNow) : Kind(tokens, i) # "Newline"
C24_NoSpaceBeforeComma ==
    Collapsed => \A i \in Inside(tokens, OpenNow) :
                    Kind(tokens, i) = "ValueSep" => Kind(tokens, i - 1) # "Whitespace"
C24_NoTrailingComma == Collapsed => ~HasTrailingComma(tokens, OpenNow)
C24_OneSpaceAfterComma ==
    Collapsed => \A i \in Inside(tokens, OpenNow) :
                    Kind(tokens, i) = "ValueSep" => OneSpaceAfter(tokens, i)
C24_CollapseMechanics ==
    /\ C24_NoNewline
    /\ C24_NoSpaceBeforeComma
    /\ C24_NoTrailingComma
    /\ C24_OneSpaceAfterComma

\* an array was collapsed that had a trailing comma, a space before a comma
\* and a comma at the end of a line
C24_Witness ==
    /\ Collapsed
    /\ HasTrailingComma(last.before, last.open)
    /\ \E i \in TopCommas(last.before, last.open) :
          Kind(last.before, i - 1) = "Whitespace"
    /\ \E i \in TopCommas(last.before, last.open) :
          Kind(last.before, i + 1) = "Newline" /\ NextSig(last.before, i) # ClosedBefore
    /\ Cardinality(TopCommas(tokens, OpenNow)) >= 1

\* C29: adjust_trailing_comma inserts or removes a comma only between the
\* open and close bracket of the array whose close bracket it is visiting;
\* tokens outside every array are never changed, also when the visited
\* array is empty or holds only a comment.
\* the open bracket that the close bracket at index c closes
MatchOpen(t, c) == SetMax({o \in Opens(t) : o < c /\ find_array_close(t, o) = c})
C29_OnlyInsideVisitedArray ==
    [][(pc = "comma" /\ tokens' # tokens) =>
          LET c == next_i
              o == MatchOpen(tokens, c)
              rest == Len(tokens) - c
          IN /\ SubSeq(tokens', 1, o + 1) = SubSeq(tokens, 1, o + 1)
             /\ SubSeq(tokens', Len(tokens') - rest + 1, Len(tokens'))
                    = SubSeq(tokens, c + 1, Len(tokens))]_vars

\* C25: after trim_trailing_spaces no whitespace token immediately precedes
\* a newline or ends the stream, and the text of every comment token is
\* its previous text with only the trailing whitespace removed, whether
\* the raw text is borrowed or owned.
Trimmed == pc = "trimmed"
C25_NoTrailingWhitespace ==
    Trimmed => \A i \in Indices(tokens) :
                  Kind(tokens, i) = "Whitespace"
                  => (i + 1 < Len(tokens) /\ Kind(tokens, i + 1) # "Newline")
CommentTexts(t) == [n \in 1..Cardinality(Comments(t)) |-> Raw(t, CommentAt(t, n - 1))]
C25_CommentsTrimmed ==
    Trimmed => CommentTexts(tokens) = [n \in DOMAIN CommentTexts(input) |->
                                          TrimEnd(CommentTexts(input)[n])]
C25_TrailingSpaces == C25_NoTrailingWhitespace /\ C25_CommentsTrimmed

----------------------------------------------------------------------------
(* constrain_blank_lines                                                   *)

Constrained == pc = "comma" /\ manifest_config.set /\ last = NoCall /\ run = 1
LowerBound == manifest_config.blank_lines_lower_bound
UpperBound == manifest_config.blank_lines_upper_bound

\* the newlines that end a line of text
LineEnds(t) == {i \in Indices(t) : Kind(t, i) = "Newline"
                                   /\ i > 0 /\ Kind(t, i - 1) # "Newline"}
\* the number of blank lines that follow the line ended at i
BlankRun(t, i) == newline_run(t, i + 1)
\* another line of text follows the blank lines after i
LineFollows(t, i) == i + 1 + BlankRun(t, i) < Len(t)

C21_RunsWithinBounds ==
    \A i \in LineEnds(tokens) :
        (Enclosing(tokens, i) = 0 /\ LineFollows(tokens, i))
            => (BlankRun(tokens, i) >= LowerBound /\ BlankRun(tokens, i) <= UpperBound)

C21_NoneInsideArrays ==
    \A i \in Indices(tokens) :
        (Kind(tokens, i) = "Newline" /\ Enclosing(tokens, i) > 0)
            => BlankRun(tokens, i) = 0

C21_NoLeadingNewline == Len(tokens) > 0 => Kind(tokens, 0) # "Newline"

\* C21: after constrain_blank_lines(min, max) with min <= max, every run of
\* blank lines between two lines at bracket depth 0 has a length in
\* [min, max], no blank line is left inside an array, and the stream does
\* not start with a newline
C21_BlankLines ==
    (Constrained /\ LowerBound <= UpperBound)
        => (C21_RunsWithinBounds /\ C21_NoneInsideArrays /\ C21_NoLeadingNewline)

\* a document that had leading newlines, blank lines inside an array, a run
\* longer than max and a run shorter than min somewhere in the inputs: here
\* one with leading newlines, an array with blank lines and a long run
C21_Witness ==
    /\ Constrained
    /\ LowerBound = 1 /\ UpperBound = 2
    /\ Kind(input, 0) = "Newline"
    /\ \E i \in LineEnds(input) :
           Enclosing(input, i) = 0 /\ LineFollows(input, i) /\ BlankRun(input, i) = 3
    /\ \E i \in LineEnds(input) : Enclosing(input, i) > 0 /\ BlankRun(input, i) > 0
    /\ \E i \in LineEnds(input) :
           Enclosing(input, i) = 0 /\ LineFollows(input, i) /\ BlankRun(input, i) = 0

\* C30: constrain_blank_lines completes without panicking for every pair
\* (min, max), a lower bound above the upper bound included
C30_NoPanic == pc # "panicked"

----------------------------------------------------------------------------
(* fmt_manifest from its entry: the two early returns, then the passes     *)
(* The raw input text is Text(tokens): the tokenizer is lossless, and the  *)
(* documents hold "\n" line ends only.                                     *)

GENERATED_MARKER == <<"@", "g", "e", "n", "e", "r", "a", "t", "e", "d">>

MaxSearchLimit == 3

\* str::contains
Contains(s, pat) ==
    \E k \in 0..(Len(s) - Len(pat)) : SubSeq(s, k + 1, k + Len(pat)) = pat

RECURSIVE lines_loop(_, _)
lines_loop(s, cur) ==
    IF s = <<>> THEN (IF cur = <<>> THEN <<>> ELSE <<cur>>)
    ELSE IF Head(s) = "\n" THEN <<cur>> \o lines_loop(Tail(s), <<>>)
    ELSE lines_loop(Tail(s), Append(cur, Head(s)))

\* str::lines: the pieces between line feeds, without a final empty piece
lines(s) == lines_loop(s, <<>>)

\* Iterator::take
take(s, n) == SubSeq(s, 1, IF n < Len(s) THEN n ELSE Len(s))

\* src/formatting/generated.rs
is_generated_file(original_snippet, generated_marker_line_search_limit) ==
    LET first == take(lines(original_snippet), generated_marker_line_search_limit)
    IN \E n \in 1..Len(first) : Contains(first[n], GENERATED_MARKER)

GeneratedLine == <<Tok("Comment", <<"#", " ">> \o GENERATED_MARKER), NL>>
EntryLines == {ValueLine, GeneratedLine, <<Tok("Comment", <<"#", "c">>), NL>>}
EntryInputs ==
    EntryLines
    \cup {a \o b : a \in EntryLines, b \in EntryLines}
    \cup {a \o b \o c : a \in EntryLines, b \in EntryLines, c \in EntryLines}

\* Config::default for the fields the early returns read
EntryDefaults ==
    [disable_all_formatting |-> FALSE, format_generated_files |-> FALSE,
     generated_marker_line_search_limit |-> 5]

EntryConfigs ==
    {[set |-> TRUE, max_width |-> FromNat(100), array_width |-> None,
      use_small_heuristics |-> "Default", tab_spaces |-> 4, hard_tabs |-> FALSE,
      trailing_comma |-> "Vertical",
      blank_lines_lower_bound |-> b[1], blank_lines_upper_bound |-> b[2],
      disable_all_formatting |-> d, format_generated_files |-> g,
      generated_marker_line_search_limit |-> n] :
        b \in {<<0, 1>>, <<1, 0>>}, d \in BOOLEAN, g \in BOOLEAN,
        n \in 0..MaxSearchLimit}

InitEntry ==
    /\ \/ tokens \in EntryInputs /\ manifest_config \in EntryConfigs
       \/ /\ tokens \in ManifestInputs
          /\ manifest_config \in {c @@ EntryDefaults : c \in ManifestConfigs}
    /\ derived = NoWidth
    /\ array_width = 0
    /\ element_threshold = 0
    /\ tab_spaces = 0
    /\ next_i = 0
    /\ inline_table_depth = 0
    /\ nesting_depth = 0
    /\ pc = "entry"
    /\ run = 1
    /\ input = tokens
    /\ out1 = <<>>
    /\ last = NoCall
    /\ log = <<>>

\* src/lib.rs 12-20: the conditions of the two early returns
early_return(c, raw_input_text) ==
    \/ c.disable_all_formatting
    \/ /\ ~c.format_generated_files
       /\ is_generated_file(raw_input_text, c.generated_marker_line_search_limit)

ReturnNone ==
    /\ pc = "entry"
    /\ early_return(manifest_config, Text(tokens))
    /\ pc' = "none"
    /\ UNCHANGED <<tokens, PassFixed>>

\* src/lib.rs 22-35: newline normalisation, parse and the scalar passes,
\* which leave these documents as they are
ParseInput ==
    /\ pc = "entry"
    /\ ~early_return(manifest_config, Text(tokens))
    /\ pc' = "parsed"
    /\ UNCHANGED <<tokens, PassFixed>>

NextEntry == ReturnNone \/ ParseInput \/ NextManifest

SpecEntry == InitEntry /\ [][NextEntry]_vars

\* the marker starts on one of the first n lines of the text
MarkerWithin(text, n) ==
    \E k \in 1..Len(text) :
        /\ k + Len(GENERATED_MARKER) - 1 <= Len(text)
        /\ SubSeq(text, k, k + Len(GENERATED_MARKER) - 1) = GENERATED_MARKER
        /\ Cardinality({j \in 1..(k - 1) : text[j] = "\n"}) < n

ShouldSkip ==
    \/ manifest_config.disable_all_formatting
    \/ /\ ~manifest_config.format_generated_files
       /\ MarkerWithin(Text(input), manifest_config.generated_marker_line_search_limit)

\* C22: fmt_manifest returns None, with nothing formatted, exactly when
\* disable_all_formatting is set or format_generated_files is false and one
\* of the first generated_marker_line_search_limit lines holds "@generated";
\* in every other case it goes through the passes and returns Some
C22_NoneOrSome ==
    /\ pc = "none" => (ShouldSkip /\ tokens = input)
    /\ pc \notin {"entry", "none"} => ~ShouldSkip
    /\ pc # "panicked"

----------------------------------------------------------------------------
(* reflow_grouped: the width of the packed lines                           *)

ElementsOn(t, open, ln) == {e \in Elements(t, open) : ln[1] <= e /\ e <= ln[2]}

\* the width of a line up to its last element or comma: a comment at the
\* end of the line, and the space before it, are not counted
CodeWidth(t, ln, tabs) ==
    RangeWidth(t, ln[1],
               SetMax({i \in ln[1]..ln[2] : Kind(t, i) \notin {"Comment", "Whitespace"}}),
               tabs)

\* C23: in the output of ReflowGrouped no line of the array that holds two
\* or more elements is wider than array_width
C23_GroupedLinesFit ==
    (AfterCall /\ last.action = "ReflowGrouped")
        => \A ln \in ContentLines(tokens, OpenNow) :
               Cardinality(ElementsOn(tokens, OpenNow, ln)) >= 2
                   => CodeWidth(tokens, ln, tab_spaces) <= array_width

====
